---- MODULE Spec2Model ----
(***************************************************************************)
(* Answer evaluation and scoring engine of the homework management system. *)
(*                                                                         *)
(* Modelled: models/answer_evaluator.py (AnswerEvaluator), the similarity  *)
(* and keyword parts of models/nlp_processor.py (NLPProcessor), the        *)
(* question loop of models/question_generator.py, and the route handlers   *)
(* of api/routes/evaluation_routes.py with the lazily built globals of     *)
(* evaluation_routes.py and lesson_routes.py.                              *)
(*                                                                         *)
(* Representation                                                          *)
(*   - a Python str is a sequence of one-character strings;                *)
(*   - a Python number is an exact rational <<n, d>> in lowest terms with  *)
(*     d > 0 (the code computes in binary floating point; round(x, 1) is   *)
(*     modelled on the exact value, ties to even);                         *)
(*   - a dict entry is a tagged value: tag "absent" (no such key), "null"  *)
(*     (the key maps to None) or "val";                                    *)
(*   - the sentence-transformer is outside the repository: its encode()    *)
(*     is an unknown but fixed function of its input, either raising or    *)
(*     yielding vectors whose cosine is some value of a grid on [-1, 1].   *)
(***************************************************************************)
EXTENDS Integers, Sequences, FiniteSets, TLC

VARIABLES
    embeddings_model,       \* NLPProcessor.embeddings_model: "None" or "loaded"
    similarity_threshold,   \* AnswerEvaluator.similarity_threshold
    encoded,                \* what encode() has answered so far (environment)
    pc,                     \* "idle" | "called" | "returned"
    question,               \* the dict passed to evaluate_answer
    student_answer,         \* the str passed to evaluate_answer
    scores,                 \* the local sub-scores of the last evaluation
    result,                 \* the outcome of the last evaluate_answer call
    calls,                  \* number of evaluate_answer calls made
    first,                  \* history: the first completed call
    request,                \* the arguments of the route or function in progress
    response,               \* what it returned
    handler,                \* the local variables of the handler in progress
    _answer_evaluator,      \* evaluation_routes._answer_evaluator
    _nlp_processor,         \* lesson_routes._nlp_processor
    _question_generator,    \* lesson_routes._question_generator
    threads,                \* the position of each request thread in its getter
    built                   \* history: how many times each constructor has run

evaluatorVars == <<embeddings_model, similarity_threshold, encoded, pc, question,
                   student_answer, scores, result, calls, first>>

routeVars == <<request, response, handler, _answer_evaluator, _nlp_processor,
               _question_generator, threads, built>>

vars == <<evaluatorVars, routeVars>>

(***************************************************************************)
(* Bounds of the model                                                     *)
(***************************************************************************)
MaxLen == 2         \* longest MCQ answer string enumerated
MaxPieces == 2      \* longest free-text answer, in pieces of the palette
CosDen == 2         \* the encoder's cosine ranges over k / CosDen
MaxCalls == 2       \* calls per behaviour of the multi-call specification
MaxKeyPoints == 3   \* coverage levels compared: i / n for n up to MaxKeyPoints
GradeDen == 2       \* aggregate percentages graded: k / GradeDen
MaxPercent == 105   \* ... for -MaxPercent <= k / GradeDen <= MaxPercent
MaxQuestions == 2   \* questions of one submission
MaxAnswers == 2     \* answers of one submission
NumThreads == 2     \* request threads served at the same time
MaxTopics == 2      \* topics of one lesson
MaxNum == 3         \* questions asked for, per question type
MaxTokens == 4      \* words of a text given to extract_keywords
MaxKeywords == 2    \* largest max_keywords asked for
MaxWordCount == 800 \* longest answer measured, in words
MaxFragments == 8   \* longest answer checked for coherence, in pieces
ScoreDen == 10      \* sub-scores given to the feedback: k / ScoreDen
MaxLines == 5       \* lines of the text the language model generates
RecursionLimit == 10 \* frames the interpreter allows on the call stack

(***************************************************************************)
(* Exact rationals                                                         *)
(***************************************************************************)
Abs(n) == IF n < 0 THEN -n ELSE n

RECURSIVE GCD(_, _)
GCD(a, b) == IF b = 0 THEN a ELSE GCD(b, a % b)

Rat(n, d) ==
    LET g == GCD(Abs(n), Abs(d))
        s == IF d < 0 THEN -1 ELSE 1
    IN  <<(s * n) \div g, (s * d) \div g>>

RAdd(x, y) == Rat(x[1] * y[2] + y[1] * x[2], x[2] * y[2])
RSub(x, y) == Rat(x[1] * y[2] - y[1] * x[2], x[2] * y[2])
RMul(x, y) == Rat(x[1] * y[1], x[2] * y[2])
RDiv(x, y) == Rat(x[1] * y[2], x[2] * y[1])
RLe(x, y) == x[1] * y[2] <= y[1] * x[2]
RLt(x, y) == x[1] * y[2] < y[1] * x[2]
RGe(x, y) == RLe(y, x)
RMax(x, y) == IF RLe(x, y) THEN y ELSE x
RInt(n) == <<n, 1>>
Zero == <<0, 1>>
One == <<1, 1>>
Hundred == <<100, 1>>

\* Python round(x, 1): the nearest multiple of 1/10, an exact tie to the even one.
Round1(x) ==
    LET n == 10 * x[1]
        d == x[2]
        lo == n \div d
        r == n % d
        k == IF 2 * r < d THEN lo
             ELSE IF 2 * r > d THEN lo + 1
             ELSE IF lo % 2 = 0 THEN lo ELSE lo + 1
    IN  Rat(k, 10)

(***************************************************************************)
(* Strings                                                                 *)
(***************************************************************************)
LowerLetters == <<"a", "b", "c", "d", "n", "s", "u">>
UpperLetters == <<"A", "B", "C", "D", "N", "S", "U">>
Whitespace == {" "}
Punctuation == {".", "!", "?"}

IndexOf(seq, c) == CHOOSE i \in 1..Len(seq) : seq[i] = c

UpperChar(c) ==
    IF \E i \in 1..Len(LowerLetters) : LowerLetters[i] = c
    THEN UpperLetters[IndexOf(LowerLetters, c)] ELSE c

LowerChar(c) ==
    IF \E i \in 1..Len(UpperLetters) : UpperLetters[i] = c
    THEN LowerLetters[IndexOf(UpperLetters, c)] ELSE c

\* str.upper(), str.lower()
Upper(s) == [i \in 1..Len(s) |-> UpperChar(s[i])]
Lower(s) == [i \in 1..Len(s) |-> LowerChar(s[i])]

RECURSIVE LStrip(_)
LStrip(s) == IF s # <<>> /\ Head(s) \in Whitespace THEN LStrip(Tail(s)) ELSE s

RECURSIVE RStrip(_)
RStrip(s) ==
    IF s # <<>> /\ s[Len(s)] \in Whitespace
    THEN RStrip(SubSeq(s, 1, Len(s) - 1)) ELSE s

\* str.strip()
Strip(s) == RStrip(LStrip(s))

\* Splitting on the characters of `seps`, empty fragments kept (re.split).
RECURSIVE SplitOn(_, _, _)
SplitOn(s, seps, cur) ==
    IF s = <<>> THEN <<cur>>
    ELSE IF Head(s) \in seps THEN <<cur>> \o SplitOn(Tail(s), seps, <<>>)
    ELSE SplitOn(Tail(s), seps, Append(cur, Head(s)))

NonEmpty(seq) == SelectSeq(seq, LAMBDA w : w # <<>>)

\* str.split(): the maximal runs of non-whitespace characters
Split(s) == NonEmpty(SplitOn(s, Whitespace, <<>>))

\* `w in s` for two strings
IsSubstring(w, s) ==
    \E i \in 0..(Len(s) - Len(w)) : SubSeq(s, i + 1, i + Len(w)) = w

Range(seq) == {seq[i] : i \in 1..Len(seq)}

(***************************************************************************)
(* dict values                                                             *)
(***************************************************************************)
AbsentStr == [tag |-> "absent", v |-> <<>>]
NullStr == [tag |-> "null", v |-> <<>>]
Str(s) == [tag |-> "val", v |-> s]
AbsentList == [tag |-> "absent", v |-> <<>>]
NullList == [tag |-> "null", v |-> <<>>]
List(l) == [tag |-> "val", v |-> l]
AbsentNum == [tag |-> "absent", v |-> 0]
Num(n) == [tag |-> "val", v |-> n]
\* A number that is a float with a fractional part, and the value of a number
Float(n, d) == [tag |-> "float", v |-> Rat(n, d)]
Number(entry) == IF entry.tag = "float" THEN entry.v ELSE RInt(entry.v)
AbsentType == [tag |-> "absent", v |-> ""]
NullType == [tag |-> "null", v |-> ""]
Type(t) == [tag |-> "val", v |-> t]

\* dict.get(key, default): the default only when the key is absent
Get(entry, default) == IF entry.tag = "absent" THEN default ELSE entry

(***************************************************************************)
(* NLPProcessor: similarity                                                *)
(***************************************************************************)
\* re.sub(r'[^\w\s]', ' ', text)
ReplacePunctuation(text) ==
    [i \in 1..Len(text) |-> IF text[i] \in Punctuation THEN " " ELSE text[i]]

\* NLPProcessor._tokenize
_tokenize(text) == Split(ReplacePunctuation(text))

\* Variant: the shared words are counted against the first text's words only
_simple_similarity_overlap(text1, text2) ==
    LET words1 == Range(_tokenize(Lower(text1)))
        words2 == Range(_tokenize(Lower(text2)))
    IN  IF words1 = {} \/ words2 = {} THEN Zero
        ELSE Rat(Cardinality(words1 \cap words2), Cardinality(words1))

\* NLPProcessor._simple_similarity on two str arguments
_simple_similarity(text1, text2) ==
    LET words1 == Range(_tokenize(Lower(text1)))
        words2 == Range(_tokenize(Lower(text2)))
    IN  IF words1 = {} \/ words2 = {} THEN Zero
        ELSE Rat(Cardinality(words1 \cap words2), Cardinality(words1 \cup words2))

\* What one call of a function does: it returns `value` or raises `exc`.
Returned(x) == [raised |-> FALSE, exc |-> "", value |-> x]
Raised(e) == [raised |-> TRUE, exc |-> e, value |-> Zero]

\* _simple_similarity(text1, text2) where text2 may be None: None.lower() raises.
SimpleSimilarityCall(text1, text2) ==
    IF text2.tag = "null" THEN Raised("AttributeError")
    ELSE Returned(_simple_similarity(text1, text2.v))

\* The answers encode() can give for one input: it raises, or the cosine of
\* the two vectors is k / CosDen.
EncodeOutcomes ==
    {[raises |-> TRUE, cos |-> Zero]}
        \cup {[raises |-> FALSE, cos |-> Rat(k, CosDen)] : k \in (-CosDen)..CosDen}

NoEncode == [raises |-> TRUE, cos |-> Zero]

\* Variant: a failed encode() is swallowed as similarity 0.0, without the fallback
calculate_similarity_no_fallback(model, text1, text2, enc) ==
    IF model = "None" THEN SimpleSimilarityCall(text1, text2)
    ELSE IF enc.raises THEN Returned(Zero)
    ELSE Returned(enc.cos)

\* NLPProcessor.calculate_similarity; `enc` is what encode([text1, text2]) does.
calculate_similarity(model, text1, text2, enc) ==
    IF model = "None" THEN SimpleSimilarityCall(text1, text2)
    ELSE IF enc.raises THEN SimpleSimilarityCall(text1, text2)
    ELSE Returned(enc.cos)

(***************************************************************************)
(* AnswerEvaluator: sub-scores                                             *)
(***************************************************************************)
\* Variant: words of three characters count as well
PointCoveredFromThree(answer, point) ==
    \E word \in Range(Split(Lower(point))) :
        Len(word) >= 3 /\ IsSubstring(word, Lower(answer))

\* any(word in answer_lower for word in point_words if len(word) > 3)
PointCovered(answer, point) ==
    \E word \in Range(Split(Lower(point))) :
        Len(word) > 3 /\ IsSubstring(word, Lower(answer))

RECURSIVE CountCovered(_, _)
CountCovered(answer, points) ==
    IF points = <<>> THEN 0
    ELSE (IF PointCovered(answer, Head(points)) THEN 1 ELSE 0)
            + CountCovered(answer, Tail(points))

\* `not key_points`: None and [] are both falsy
Falsy(key_points) == key_points.tag = "null" \/ key_points.v = <<>>

\* Variant: a point that occurs verbatim in the answer counts as covered too
_check_key_points_verbatim(answer, key_points) ==
    IF Falsy(key_points) THEN One
    ELSE Rat(Cardinality({i \in DOMAIN key_points.v :
                            \/ PointCovered(answer, key_points.v[i])
                            \/ IsSubstring(Lower(key_points.v[i]), Lower(answer))}),
             Len(key_points.v))

\* AnswerEvaluator._check_key_points
_check_key_points(answer, key_points) ==
    IF Falsy(key_points) THEN One
    ELSE Rat(CountCovered(answer, key_points.v), Len(key_points.v))

MinWords(question_type) ==
    CASE question_type = "SHORT_ANSWER" -> 20
      [] question_type = "DESCRIPTIVE" -> 100
      [] OTHER -> 20

MaxWords(question_type) ==
    CASE question_type = "SHORT_ANSWER" -> 100
      [] question_type = "DESCRIPTIVE" -> 500
      [] OTHER -> 200

\* Variant: the penalty for an over-length answer has no floor
LengthAdequacyOfNoFloor(word_count, question_type) ==
    LET min_w == MinWords(question_type)
        max_w == MaxWords(question_type)
    IN  IF word_count < min_w THEN Rat(word_count, min_w)
        ELSE IF word_count > max_w
             THEN RSub(One, Rat(word_count - max_w, max_w))
        ELSE One

\* AnswerEvaluator._check_length_adequacy, from the word count
LengthAdequacyOf(word_count, question_type) ==
    LET min_w == MinWords(question_type)
        max_w == MaxWords(question_type)
    IN  IF word_count < min_w THEN Rat(word_count, min_w)
        ELSE IF word_count > max_w
             THEN RMax(Rat(1, 2), RSub(One, Rat(word_count - max_w, max_w)))
        ELSE One

_check_length_adequacy(answer, question_type) ==
    LengthAdequacyOf(Len(Split(answer)), question_type)

\* re.split(r'[.!?]+', answer), stripped, blanks dropped
Sentences(answer) ==
    LET parts == SplitOn(answer, Punctuation, <<>>)
    IN  NonEmpty([i \in 1..Len(parts) |-> Strip(parts[i])])

\* Variant: blank fragments are counted as sentences
_check_coherence_keeping_blanks(answer) ==
    LET sentences == SplitOn(answer, Punctuation, <<>>)
        valid == SelectSeq(sentences, LAMBDA s : Len(Split(s)) >= 3)
    IN  IF Len(sentences) < 2 THEN Rat(1, 2)
        ELSE Rat(Len(valid), Len(sentences))

\* AnswerEvaluator._check_coherence
_check_coherence(answer) ==
    LET sentences == Sentences(answer)
        valid == SelectSeq(sentences, LAMBDA s : Len(Split(s)) >= 3)
    IN  IF Len(sentences) < 2 THEN Rat(1, 2)
        ELSE Rat(Len(valid), Len(sentences))

\* Variant: a point is also dropped from the list for a word of three characters
_get_missing_points_from_three(answer, points) ==
    SelectSeq(points, LAMBDA point :
        ~\E word \in Range(Split(Lower(point))) :
            Len(word) >= 3 /\ IsSubstring(word, Lower(answer)))

\* AnswerEvaluator._get_missing_points on a list
_get_missing_points(answer, points) ==
    SelectSeq(points, LAMBDA point : ~PointCovered(answer, point))

\* Variant: a score on a boundary gets the message of the band below
_generate_feedback_exclusive(score) ==
    IF RLt(Rat(8, 10), score)
    THEN <<"Excellent answer! You've covered the topic comprehensively.">>
    ELSE IF RLt(Rat(6, 10), score)
    THEN <<"Good answer. Consider adding more details about the key concepts.">>
    ELSE IF RLt(Rat(4, 10), score)
    THEN <<"Satisfactory answer. Try to cover more key points and provide examples.">>
    ELSE <<"Answer needs improvement. Review the topic and include main concepts.">>

\* AnswerEvaluator._generate_feedback
_generate_feedback(score) ==
    IF RGe(score, Rat(8, 10))
    THEN <<"Excellent answer! You've covered the topic comprehensively.">>
    ELSE IF RGe(score, Rat(6, 10))
    THEN <<"Good answer. Consider adding more details about the key concepts.">>
    ELSE IF RGe(score, Rat(4, 10))
    THEN <<"Satisfactory answer. Try to cover more key points and provide examples.">>
    ELSE <<"Answer needs improvement. Review the topic and include main concepts.">>

\* Variant: the coherence clause is appended before the length clause
_generate_detailed_feedback_reordered(sc) ==
    LET feedback_parts ==
            (IF RLt(sc.semantic_similarity, Rat(5, 10))
             THEN <<"Your answer needs to focus more on the main topic.">> ELSE <<>>)
         \o (IF RLt(sc.key_points_coverage, Rat(6, 10))
             THEN <<"Try to cover more key points in your answer.">> ELSE <<>>)
         \o (IF RLt(sc.coherence, Rat(7, 10))
             THEN <<"Improve the structure and flow of your answer.">> ELSE <<>>)
         \o (IF RLt(sc.length_adequacy, Rat(7, 10))
             THEN <<"Consider providing more detailed explanations.">> ELSE <<>>)
    IN  IF feedback_parts = <<>>
        THEN <<"Excellent work! Your answer is comprehensive and well-structured.">>
        ELSE feedback_parts

\* AnswerEvaluator._generate_detailed_feedback: the clauses that " ".join joins
_generate_detailed_feedback(sc) ==
    LET feedback_parts ==
            (IF RLt(sc.semantic_similarity, Rat(5, 10))
             THEN <<"Your answer needs to focus more on the main topic.">> ELSE <<>>)
         \o (IF RLt(sc.key_points_coverage, Rat(6, 10))
             THEN <<"Try to cover more key points in your answer.">> ELSE <<>>)
         \o (IF RLt(sc.length_adequacy, Rat(7, 10))
             THEN <<"Consider providing more detailed explanations.">> ELSE <<>>)
         \o (IF RLt(sc.coherence, Rat(7, 10))
             THEN <<"Improve the structure and flow of your answer.">> ELSE <<>>)
    IN  IF feedback_parts = <<>>
        THEN <<"Excellent work! Your answer is comprehensive and well-structured.">>
        ELSE feedback_parts

\* Variant: a low semantic_similarity gets a suggestion as well
_get_improvement_suggestions_with_similarity(sc) ==
       (IF RLt(sc.semantic_similarity, Rat(5, 10))
        THEN <<"Include all key concepts mentioned in the lesson">> ELSE <<>>)
    \o (IF RLt(sc.key_points_coverage, Rat(6, 10))
        THEN <<"Include all key concepts mentioned in the lesson">> ELSE <<>>)
    \o (IF RLt(sc.length_adequacy, Rat(7, 10))
        THEN <<"Provide more detailed explanations with examples">> ELSE <<>>)
    \o (IF RLt(sc.coherence, Rat(7, 10))
        THEN <<"Use clear paragraph structure with topic sentences">> ELSE <<>>)

\* AnswerEvaluator._get_improvement_suggestions
_get_improvement_suggestions(sc) ==
       (IF RLt(sc.key_points_coverage, Rat(6, 10))
        THEN <<"Include all key concepts mentioned in the lesson">> ELSE <<>>)
    \o (IF RLt(sc.length_adequacy, Rat(7, 10))
        THEN <<"Provide more detailed explanations with examples">> ELSE <<>>)
    \o (IF RLt(sc.coherence, Rat(7, 10))
        THEN <<"Use clear paragraph structure with topic sentences">> ELSE <<>>)

(***************************************************************************)
(* AnswerEvaluator: results                                                *)
(***************************************************************************)
NoScores ==
    [branch |-> "none", semantic_similarity |-> Zero, key_points_coverage |-> Zero,
     length_adequacy |-> Zero, coherence |-> Zero, combined_score |-> Zero]

NoDetailed ==
    [semantic_similarity |-> Zero, key_points_coverage |-> Zero,
     length_adequacy |-> Zero, coherence |-> Zero]

\* A result dict: `keys` are the keys the dict holds; a field whose key is
\* not in `keys` holds a filler.
NoDict ==
    [keys |-> {}, question_type |-> "", is_correct |-> FALSE,
     marks_obtained |-> Zero, max_marks |-> Zero, percentage |-> Zero,
     feedback |-> <<>>, correct_answer |-> <<>>, student_answer |-> <<>>,
     explanation |-> AbsentStr, semantic_similarity |-> Zero,
     key_points_coverage |-> Zero, detailed_scores |-> NoDetailed,
     missing_points |-> <<>>, improvement_suggestions |-> <<>>,
     error |-> "", error_type |-> AbsentType]

NoResult == [kind |-> "none", exc |-> "", value |-> NoDict]
ReturnDict(d) == [kind |-> "returned", exc |-> "", value |-> d]
RaiseExc(e) == [kind |-> "raised", exc |-> e, value |-> NoDict]

ScoreKeys == {"is_correct", "marks_obtained", "max_marks", "percentage"}
McqKeys ==
    {"question_type", "feedback", "correct_answer", "student_answer", "explanation"}
        \cup ScoreKeys
ShortKeys ==
    {"question_type", "feedback", "semantic_similarity", "key_points_coverage",
     "missing_points"} \cup ScoreKeys
DescriptiveKeys ==
    {"question_type", "feedback", "detailed_scores", "missing_points",
     "improvement_suggestions"} \cup ScoreKeys

\* _evaluate_mcq, lines 52-53: .upper().strip()
NormalizeMcqCaseSensitive(s) == Strip(s)

NormalizeMcq(s) == Strip(Upper(s))

\* AnswerEvaluator._evaluate_mcq
_evaluate_mcq(q, answer) ==
    LET got == Get(q.correct_answer, Str(<<>>))
        correct_answer == NormalizeMcq(got.v)
        student == NormalizeMcq(answer)
        is_correct == student = correct_answer
        max_marks == Number(Get(q.marks, Num(1)))
    IN  IF got.tag = "null"
        THEN [out |-> RaiseExc("AttributeError"),
              scores |-> [NoScores EXCEPT !.branch = "MCQ"]]
        ELSE [out |-> ReturnDict(
                [NoDict EXCEPT
                    !.keys = McqKeys,
                    !.question_type = "MCQ",
                    !.is_correct = is_correct,
                    !.marks_obtained = IF is_correct THEN max_marks ELSE Zero,
                    !.max_marks = max_marks,
                    !.percentage = IF is_correct THEN Hundred ELSE Zero,
                    !.feedback = IF is_correct THEN <<"Correct!">>
                                 ELSE <<"Incorrect. The correct answer is {correct_answer}.">>,
                    !.correct_answer = correct_answer,
                    !.student_answer = student,
                    !.explanation = Get(q.explanation, Str(<<>>))]),
              scores |-> [NoScores EXCEPT !.branch = "MCQ"]]

\* Variant: percentage rounded from the score without the factor 100
ShortAnswerScoringNoPercent(similarity, key_points_score, max_marks, threshold) ==
    LET combined_score ==
            RAdd(RMul(similarity, Rat(6, 10)), RMul(key_points_score, Rat(4, 10)))
    IN  [combined_score |-> combined_score,
         marks_obtained |-> Round1(RMul(combined_score, max_marks)),
         percentage |-> Round1(combined_score),
         is_correct |-> RGe(combined_score, threshold)]

\* Variant: the uncovered share of the key points is weighted, not the covered
ShortAnswerScoringMissingShare(similarity, key_points_score, max_marks, threshold) ==
    LET combined_score ==
            RAdd(RMul(similarity, Rat(6, 10)),
                 RMul(RSub(One, key_points_score), Rat(4, 10)))
    IN  [combined_score |-> combined_score,
         marks_obtained |-> Round1(RMul(combined_score, max_marks)),
         percentage |-> Round1(RMul(combined_score, Hundred)),
         is_correct |-> RGe(combined_score, threshold)]

\* Variant: a score equal to the threshold is graded incorrect
ShortAnswerScoringStrict(similarity, key_points_score, max_marks, threshold) ==
    LET combined_score ==
            RAdd(RMul(similarity, Rat(6, 10)), RMul(key_points_score, Rat(4, 10)))
    IN  [combined_score |-> combined_score,
         marks_obtained |-> Round1(RMul(combined_score, max_marks)),
         percentage |-> Round1(RMul(combined_score, Hundred)),
         is_correct |-> RLt(threshold, combined_score)]

\* _evaluate_short_answer, lines 83-88 and 95: the score and what follows from it
ShortAnswerScoring(similarity, key_points_score, max_marks, threshold) ==
    LET combined_score ==
            RAdd(RMul(similarity, Rat(6, 10)), RMul(key_points_score, Rat(4, 10)))
    IN  [combined_score |-> combined_score,
         marks_obtained |-> Round1(RMul(combined_score, max_marks)),
         percentage |-> Round1(RMul(combined_score, Hundred)),
         is_correct |-> RGe(combined_score, threshold)]

\* AnswerEvaluator._evaluate_short_answer
_evaluate_short_answer(q, answer, threshold, model, enc) ==
    LET expected_answer == Get(q.expected_answer, Str(<<>>))
        key_points == Get(q.key_points, List(<<>>))
        max_marks == Number(Get(q.marks, Num(3)))
        sim == calculate_similarity(model, answer, expected_answer, enc)
        similarity == sim.value
        key_points_score == _check_key_points(answer, key_points)
        sc == ShortAnswerScoring(similarity, key_points_score, max_marks,
                                 threshold.SHORT_ANSWER)
        locals == [NoScores EXCEPT
                    !.branch = "SHORT_ANSWER",
                    !.semantic_similarity = similarity,
                    !.key_points_coverage = key_points_score,
                    !.combined_score = sc.combined_score]
    IN  IF sim.raised
        THEN [out |-> RaiseExc(sim.exc),
              scores |-> [NoScores EXCEPT !.branch = "SHORT_ANSWER"]]
        ELSE IF key_points.tag = "null"
        THEN [out |-> RaiseExc("TypeError"), scores |-> locals]
        ELSE [out |-> ReturnDict(
                [NoDict EXCEPT
                    !.keys = ShortKeys,
                    !.question_type = "SHORT_ANSWER",
                    !.is_correct = sc.is_correct,
                    !.marks_obtained = sc.marks_obtained,
                    !.max_marks = max_marks,
                    !.percentage = sc.percentage,
                    !.semantic_similarity = Round1(RMul(similarity, Hundred)),
                    !.key_points_coverage = Round1(RMul(key_points_score, Hundred)),
                    !.feedback = _generate_feedback(sc.combined_score),
                    !.missing_points = _get_missing_points(answer, key_points.v)]),
              scores |-> locals]

\* Variant: the four sub-scores are weighted equally
DescriptiveScoringEqualWeights(sc, max_marks, threshold) ==
    LET combined_score ==
            RMul(RAdd(RAdd(sc.semantic_similarity, sc.key_points_coverage),
                      RAdd(sc.length_adequacy, sc.coherence)), Rat(1, 4))
    IN  [combined_score |-> combined_score,
         marks_obtained |-> Round1(RMul(combined_score, max_marks)),
         percentage |-> Round1(RMul(combined_score, Hundred)),
         is_correct |-> RGe(combined_score, threshold)]

\* _evaluate_descriptive, lines 122-128 and 132
DescriptiveScoring(sc, max_marks, threshold) ==
    LET combined_score ==
            RAdd(RAdd(RMul(sc.semantic_similarity, Rat(4, 10)),
                      RMul(sc.key_points_coverage, Rat(3, 10))),
                 RAdd(RMul(sc.length_adequacy, Rat(15, 100)),
                      RMul(sc.coherence, Rat(15, 100))))
    IN  [combined_score |-> combined_score,
         marks_obtained |-> Round1(RMul(combined_score, max_marks)),
         percentage |-> Round1(RMul(combined_score, Hundred)),
         is_correct |-> RGe(combined_score, threshold)]

\* AnswerEvaluator._evaluate_descriptive
_evaluate_descriptive(q, answer, threshold, model, enc) ==
    LET expected_answer == Get(q.expected_answer, Str(<<>>))
        key_points == Get(q.key_points, List(<<>>))
        max_marks == Number(Get(q.marks, Num(5)))
        sim == calculate_similarity(model, answer, expected_answer, enc)
        sub == [NoScores EXCEPT
                    !.branch = "DESCRIPTIVE",
                    !.semantic_similarity = sim.value,
                    !.key_points_coverage = _check_key_points(answer, key_points),
                    !.length_adequacy = _check_length_adequacy(answer, "DESCRIPTIVE"),
                    !.coherence = _check_coherence(answer)]
        sc == DescriptiveScoring(sub, max_marks, threshold.DESCRIPTIVE)
        locals == [sub EXCEPT !.combined_score = sc.combined_score]
    IN  IF sim.raised
        THEN [out |-> RaiseExc(sim.exc),
              scores |-> [NoScores EXCEPT !.branch = "DESCRIPTIVE"]]
        ELSE IF key_points.tag = "null"
        THEN [out |-> RaiseExc("TypeError"), scores |-> locals]
        ELSE [out |-> ReturnDict(
                [NoDict EXCEPT
                    !.keys = DescriptiveKeys,
                    !.question_type = "DESCRIPTIVE",
                    !.is_correct = sc.is_correct,
                    !.marks_obtained = sc.marks_obtained,
                    !.max_marks = max_marks,
                    !.percentage = sc.percentage,
                    !.detailed_scores =
                        [semantic_similarity |->
                            Round1(RMul(sub.semantic_similarity, Hundred)),
                         key_points_coverage |->
                            Round1(RMul(sub.key_points_coverage, Hundred)),
                         length_adequacy |->
                            Round1(RMul(sub.length_adequacy, Hundred)),
                         coherence |-> Round1(RMul(sub.coherence, Hundred))],
                    !.feedback = _generate_detailed_feedback(sub),
                    !.missing_points = _get_missing_points(answer, key_points.v),
                    !.improvement_suggestions = _get_improvement_suggestions(sub)]),
              scores |-> locals]

\* Variant: a question without question_type is of no known type
evaluate_answer_type_required(q, answer, threshold, model, enc) ==
    LET question_type == Get(q.question_type, NullType)
    IN  IF question_type = Type("MCQ") THEN _evaluate_mcq(q, answer)
        ELSE IF question_type = Type("SHORT_ANSWER")
        THEN _evaluate_short_answer(q, answer, threshold, model, enc)
        ELSE IF question_type = Type("DESCRIPTIVE")
        THEN _evaluate_descriptive(q, answer, threshold, model, enc)
        ELSE [out |-> ReturnDict(
                [NoDict EXCEPT
                    !.keys = {"error"},
                    !.error = "Unknown question type: ",
                    !.error_type = question_type]),
              scores |-> NoScores]

\* Variant: an unrecognised type is graded as an MCQ
evaluate_answer_defaulting(q, answer, threshold, model, enc) ==
    LET question_type == Get(q.question_type, Type("MCQ"))
    IN  IF question_type = Type("SHORT_ANSWER")
        THEN _evaluate_short_answer(q, answer, threshold, model, enc)
        ELSE IF question_type = Type("DESCRIPTIVE")
        THEN _evaluate_descriptive(q, answer, threshold, model, enc)
        ELSE _evaluate_mcq(q, answer)

\* AnswerEvaluator.evaluate_answer
evaluate_answer(q, answer, threshold, model, enc) ==
    LET question_type == Get(q.question_type, Type("MCQ"))
    IN  IF question_type = Type("MCQ") THEN _evaluate_mcq(q, answer)
        ELSE IF question_type = Type("SHORT_ANSWER")
        THEN _evaluate_short_answer(q, answer, threshold, model, enc)
        ELSE IF question_type = Type("DESCRIPTIVE")
        THEN _evaluate_descriptive(q, answer, threshold, model, enc)
        ELSE [out |-> ReturnDict(
                [NoDict EXCEPT
                    !.keys = {"error"},
                    !.error = "Unknown question type: ",
                    !.error_type = question_type]),
              scores |-> NoScores]

(***************************************************************************)
(* Inputs                                                                  *)
(***************************************************************************)
Question(t, correct, expected, points, marks, explanation) ==
    [question_type |-> t, correct_answer |-> correct, expected_answer |-> expected,
     key_points |-> points, marks |-> marks, explanation |-> explanation]

NoQuestion ==
    Question(AbsentType, AbsentStr, AbsentStr, AbsentList, AbsentNum, AbsentStr)

\* All strings over `chars` of length at most n
RECURSIVE StringsUpTo(_, _)
StringsUpTo(chars, n) ==
    IF n = 0 THEN {<<>>}
    ELSE LET shorter == StringsUpTo(chars, n - 1)
         IN  shorter \cup {Append(s, c) : s \in shorter, c \in chars}

McqChars == {"a", "A", "b", " "}
McqStrings == StringsUpTo(McqChars, MaxLen)

McqQuestions ==
    {Question(Type("MCQ"), c, AbsentStr, AbsentList, m, AbsentStr) :
        c \in {AbsentStr} \cup {Str(s) : s \in McqStrings},
        m \in {AbsentNum, Num(2)}}

\* Free text: concatenations of at most MaxPieces pieces
Suns == <<"S", "u", "n", "s", " ">>
Dna == <<"d", "n", "a", " ">>
Bees == <<"b", "e", "e", "s", ".">>
Pieces == {Suns, Dna, Bees, <<" ">>}

RECURSIVE TextsUpTo(_)
TextsUpTo(n) ==
    IF n = 0 THEN {<<>>}
    ELSE LET shorter == TextsUpTo(n - 1)
         IN  shorter \cup {s \o p : s \in shorter, p \in Pieces}

TextAnswers == TextsUpTo(MaxPieces)

ExpectedAnswers == {AbsentStr, NullStr, Str(<<>>), Str(Suns \o Bees)}

KeyPointLists ==
    {AbsentList, NullList, List(<<>>),
     List(<<<<"s", "u", "n", "s">>>>),
     List(<<<<"d", "n", "a">>, <<"B", "e", "e", "s", " ", "d", "n", "a">>>>)}

EvalQuestions ==
    {Question(t, c, AbsentStr, AbsentList, m, x) :
        t \in {Type("MCQ"), AbsentType},
        c \in {AbsentStr, NullStr, Str(<<>>), Str(<<"a">>)},
        m \in {AbsentNum, Num(2)},
        x \in {AbsentStr, NullStr, Str(<<"a">>)}}
    \cup
    {Question(t, AbsentStr, e, k, m, AbsentStr) :
        t \in {Type("SHORT_ANSWER"), Type("DESCRIPTIVE")},
        e \in ExpectedAnswers, k \in KeyPointLists, m \in {AbsentNum, Num(2)}}
    \cup
    {Question(t, Str(<<"a">>), Str(Suns), List(<<>>), m, AbsentStr) :
        t \in {Type("ESSAY"), NullType}, m \in {AbsentNum, Num(2)}}

EvalAnswers == TextAnswers \cup {<<"a">>, <<"A", " ">>}

\* The small pool of the multi-call specification
FewQuestions ==
    {Question(Type("MCQ"), Str(<<"a">>), AbsentStr, AbsentList, AbsentNum, AbsentStr),
     Question(Type("SHORT_ANSWER"), AbsentStr, Str(Suns \o Bees),
              List(<<<<"s", "u", "n", "s">>>>), AbsentNum, AbsentStr),
     Question(Type("DESCRIPTIVE"), AbsentStr, Str(Suns \o Bees),
              List(<<<<"s", "u", "n", "s">>>>), AbsentNum, AbsentStr),
     Question(Type("ESSAY"), AbsentStr, AbsentStr, AbsentList, AbsentNum, AbsentStr)}

FewAnswers == {<<>>, <<"a">>, Suns}

(***************************************************************************)
(* The evaluator as a state machine                                        *)
(***************************************************************************)
\* AnswerEvaluator.__init__
InitThreshold == [SHORT_ANSWER |-> Rat(6, 10), DESCRIPTIVE |-> Rat(5, 10)]

NoFirst ==
    [done |-> FALSE, question |-> NoQuestion, student_answer |-> <<>>,
     result |-> NoResult]

\* No route handler is in progress and no global has been built
NoRequest == [op |-> "none"]
NoResponse == [status |-> 0]
NoLocals == [at |-> "idle"]
NoneBuilt == [AnswerEvaluator |-> 0, NLPProcessor |-> 0, SentenceTransformer |-> 0,
              QuestionGenerator |-> 0]

GlobalsUnset ==
    /\ _answer_evaluator = "None"
    /\ _nlp_processor = "None"
    /\ _question_generator = "None"
    /\ built = NoneBuilt

RoutesIdle ==
    /\ request = NoRequest
    /\ response = NoResponse
    /\ handler = NoLocals
    /\ threads = <<>>
    /\ GlobalsUnset

\* NLPProcessor._initialize_models leaves the model loaded, or None when
\* loading raised.
Constructed ==
    /\ embeddings_model \in {"None", "loaded"}
    /\ similarity_threshold = InitThreshold
    /\ encoded = {}
    /\ first = NoFirst

\* An evaluator on which evaluate_answer has not been called
EvaluatorIdle ==
    /\ Constructed
    /\ pc = "idle"
    /\ question = NoQuestion
    /\ student_answer = <<>>
    /\ scores = NoScores
    /\ result = NoResult
    /\ calls = 0

Init ==
    /\ EvaluatorIdle
    /\ RoutesIdle

\* One pending call with arguments drawn from the pools
InitCall(questions, answers) ==
    /\ Constructed
    /\ pc = "called"
    /\ question \in questions
    /\ student_answer \in answers
    /\ scores = NoScores
    /\ result = NoResult
    /\ calls = 1
    /\ RoutesIdle

InitMCQ == InitCall(McqQuestions, McqStrings)
InitEval == InitCall(EvalQuestions, EvalAnswers)

\* A caller passes (q, a) to evaluate_answer
Call(q, a) ==
    /\ pc \in {"idle", "returned"}
    /\ calls < MaxCalls
    /\ pc' = "called"
    /\ question' = q
    /\ student_answer' = a
    /\ scores' = NoScores
    /\ result' = NoResult
    /\ calls' = calls + 1
    /\ UNCHANGED <<embeddings_model, similarity_threshold, encoded, first>>
    /\ UNCHANGED routeVars

\* calculate_similarity reaches encode() only in the two text branches and
\* only with a loaded model
EncoderInvoked ==
    /\ embeddings_model = "loaded"
    /\ Get(question.question_type, Type("MCQ"))
            \in {Type("SHORT_ANSWER"), Type("DESCRIPTIVE")}

EncodeInput == <<student_answer, Get(question.expected_answer, Str(<<>>))>>

\* encode() is a function: an input seen before gets the answer it got then
EncodeChoices ==
    IF ~EncoderInvoked THEN {NoEncode}
    ELSE IF \E e \in encoded : e.input = EncodeInput
    THEN {e.out : e \in {x \in encoded : x.input = EncodeInput}}
    ELSE EncodeOutcomes

\* Variant: after a failed encode() the evaluator drops its model
EvaluateAnswerDropsModel ==
    /\ pc = "called"
    /\ \E enc \in EncodeChoices :
        LET r == evaluate_answer(question, student_answer, similarity_threshold,
                                 embeddings_model, enc)
        IN  /\ result' = r.out
            /\ scores' = r.scores
            /\ encoded' = IF EncoderInvoked
                          THEN encoded \cup {[input |-> EncodeInput, out |-> enc]}
                          ELSE encoded
            /\ first' = IF first.done THEN first
                        ELSE [done |-> TRUE, question |-> question,
                              student_answer |-> student_answer, result |-> r.out]
            /\ embeddings_model' = IF EncoderInvoked /\ enc.raises THEN "None"
                                   ELSE embeddings_model
    /\ pc' = "returned"
    /\ UNCHANGED <<similarity_threshold, question, student_answer, calls>>
    /\ UNCHANGED routeVars

\* The body of evaluate_answer runs to its return or its exception
EvaluateAnswer ==
    /\ pc = "called"
    /\ \E enc \in EncodeChoices :
        LET r == evaluate_answer(question, student_answer, similarity_threshold,
                                 embeddings_model, enc)
        IN  /\ result' = r.out
            /\ scores' = r.scores
            /\ encoded' = IF EncoderInvoked
                          THEN encoded \cup {[input |-> EncodeInput, out |-> enc]}
                          ELSE encoded
            /\ first' = IF first.done THEN first
                        ELSE [done |-> TRUE, question |-> question,
                              student_answer |-> student_answer, result |-> r.out]
    /\ pc' = "returned"
    /\ UNCHANGED <<embeddings_model, similarity_threshold, question,
                   student_answer, calls>>
    /\ UNCHANGED routeVars

Next ==
    \/ \E q \in FewQuestions, a \in FewAnswers : Call(q, a)
    \/ EvaluateAnswer

Spec == Init /\ [][Next]_vars

NextEvaluate == EvaluateAnswer

SpecMCQ == InitMCQ /\ [][NextEvaluate]_vars
SpecEval == InitEval /\ [][NextEvaluate]_vars

(***************************************************************************)
(* Properties                                                              *)
(***************************************************************************)
Done == pc = "returned"
Dict == result.value
ReturnedNormally == Done /\ result.kind = "returned"
QuestionType == Get(question.question_type, Type("MCQ"))
KnownTypes == {Type("MCQ"), Type("SHORT_ANSWER"), Type("DESCRIPTIVE")}
TextTypes == {Type("SHORT_ANSWER"), Type("DESCRIPTIVE")}

\* A string without its leading and trailing whitespace, by positions
Core(s) ==
    LET solid == {i \in 1..Len(s) : s[i] \notin Whitespace}
    IN  IF solid = {} THEN <<>>
        ELSE SubSeq(s, CHOOSE i \in solid : \A j \in solid : i <= j,
                       CHOOSE i \in solid : \A j \in solid : i >= j)

\* Two strings are the same after upper-casing and stripping
SameLetter(s, t) ==
    /\ Len(Core(s)) = Len(Core(t))
    /\ \A i \in 1..Len(Core(s)) : UpperChar(Core(s)[i]) = UpperChar(Core(t)[i])

DefaultMarks ==
    CASE QuestionType = Type("MCQ") -> 1
      [] QuestionType = Type("SHORT_ANSWER") -> 3
      [] QuestionType = Type("DESCRIPTIVE") -> 5
      [] OTHER -> 0

GivenMarks == IF question.marks.tag = "absent" THEN RInt(DefaultMarks)
              ELSE Number(question.marks)

\* C1: an MCQ question with a non-empty correct_answer is graded correct, with
\* marks_obtained = max_marks and percentage = 100.0, exactly when the student
\* answer equals the correct answer after upper-casing and stripping both;
\* otherwise it is graded incorrect with marks_obtained = 0, percentage = 0.0.
C1_McqGrading ==
    (Done /\ QuestionType = Type("MCQ") /\ question.correct_answer.tag = "val"
          /\ question.correct_answer.v # <<>>)
    => /\ result.kind = "returned"
       /\ Dict.max_marks = GivenMarks
       /\ IF SameLetter(student_answer, question.correct_answer.v)
          THEN /\ Dict.is_correct
               /\ Dict.marks_obtained = Dict.max_marks
               /\ Dict.percentage = Hundred
          ELSE /\ ~Dict.is_correct
               /\ Dict.marks_obtained = Zero
               /\ Dict.percentage = Zero

\* An answer that differs from the key as written, yet is graded correct
C1_Witness ==
    /\ ReturnedNormally
    /\ QuestionType = Type("MCQ")
    /\ question.correct_answer.tag = "val"
    /\ question.correct_answer.v # <<>>
    /\ student_answer # question.correct_answer.v
    /\ Upper(student_answer) # Upper(question.correct_answer.v)
    /\ Dict.is_correct
    /\ Dict.marks_obtained = RInt(2)

\* C2: an MCQ question whose correct_answer is missing or empty is graded
\* incorrect for every student answer, the empty and the whitespace-only answer
\* included, and the call does not raise.
C2_MissingKeyAlwaysIncorrect ==
    (Done /\ QuestionType = Type("MCQ")
          /\ question.correct_answer.tag # "null"
          /\ question.correct_answer.v = <<>>)
    => (result.kind = "returned" /\ ~Dict.is_correct)

RAbs(x) == IF RLt(x, Zero) THEN RSub(Zero, x) ELSE x

C4_UnknownType ==
    (Done /\ QuestionType \notin KnownTypes)
    => /\ result.kind = "returned"
       /\ "error" \in Dict.keys
       /\ Dict.error_type = QuestionType
       /\ Dict.keys \cap ScoreKeys = {}
       /\ Dict.keys \cap (McqKeys \cup ShortKeys \cup DescriptiveKeys) = {}
       /\ scores = NoScores

C4_Witness ==
    /\ Done
    /\ question.question_type = Type("ESSAY")
    /\ question.marks = Num(2)
    /\ Dict.keys = {"error"}

\* C5: for a known type evaluate_answer returns a complete result and never
\* raises, whether key_points, expected_answer, correct_answer, explanation are
\* absent, null or empty.
C5_NeverRaises ==
    (Done /\ QuestionType \in KnownTypes)
    => /\ result.kind = "returned"
       /\ Dict.keys = CASE QuestionType = Type("MCQ") -> McqKeys
                        [] QuestionType = Type("SHORT_ANSWER") -> ShortKeys
                        [] OTHER -> DescriptiveKeys


ExpectedAnswer == Get(question.expected_answer, Str(<<>>))
KeyPoints == Get(question.key_points, List(<<>>))

\* C6: calculate_similarity returns a value in [0, 1] under both strategies
\* (a negative cosine floored to 0, a value above 1 capped at 1).
C6_SimilarityInUnitRange ==
    (ReturnedNormally /\ QuestionType \in TextTypes)
    => /\ RLe(Zero, scores.semantic_similarity)
       /\ RLe(scores.semantic_similarity, One)

EmptyText(t) == _tokenize(Lower(t)) = <<>>

\* C7: under either strategy the similarity is 0.0 when either text is empty
\* after normalization, so an empty student answer to a SHORT_ANSWER or
\* DESCRIPTIVE question is reported with semantic_similarity = 0.0 and, for
\* DESCRIPTIVE, length_adequacy = 0.0.
C7_EmptyTextZeroSimilarity ==
    (ReturnedNormally /\ QuestionType \in TextTypes)
    => /\ (EmptyText(student_answer) \/ EmptyText(ExpectedAnswer.v))
            => scores.semantic_similarity = Zero
       /\ student_answer = <<>> =>
            /\ QuestionType = Type("SHORT_ANSWER")
                    => Dict.semantic_similarity = Zero
            /\ QuestionType = Type("DESCRIPTIVE")
                    => /\ Dict.detailed_scores.semantic_similarity = Zero
                       /\ Dict.detailed_scores.length_adequacy = Zero

\* encode() raised in the call that has just returned
EncodeRaised ==
    /\ EncoderInvoked
    /\ \E e \in encoded : e.input = EncodeInput /\ e.out.raises

\* C8: with no embedding model, or when encode() raises, the similarity of two
\* texts is exactly their token-overlap similarity and computing it does not
\* raise, so that evaluate_answer returns a normal result.
C8_Fallback ==
    (Done /\ QuestionType \in TextTypes /\ ExpectedAnswer.tag # "null"
          /\ (embeddings_model = "None" \/ EncodeRaised))
    => /\ scores.branch = QuestionType.v
       /\ scores.semantic_similarity =
                _simple_similarity(student_answer, ExpectedAnswer.v)
       /\ KeyPoints.tag # "null" =>
            /\ result.kind = "returned"
            /\ ScoreKeys \subseteq Dict.keys
            /\ QuestionType = Type("SHORT_ANSWER") =>
                    Dict.semantic_similarity =
                        Round1(RMul(_simple_similarity(student_answer,
                                                       ExpectedAnswer.v), Hundred))

\* encode() raised on two texts that share a word
C8_Witness ==
    /\ ReturnedNormally
    /\ EncodeRaised
    /\ QuestionType = Type("SHORT_ANSWER")
    /\ RLt(Zero, scores.semantic_similarity)
    /\ RLt(scores.semantic_similarity, One)

C9_SameAsFirst ==
    (Done /\ first.done /\ question = first.question
          /\ student_answer = first.student_answer)
    => result = first.result

C9_NothingChanged ==
    pc = "called"
    => /\ embeddings_model' = embeddings_model
       /\ similarity_threshold' = similarity_threshold
       /\ similarity_threshold' = InitThreshold
       /\ question' = question

CoverageLevels == UNION {{Rat(i, n) : i \in 0..n} : n \in 1..MaxKeyPoints}

\* The scoring of the returned call with coverage c in place of its own
ScoringAt(c) ==
    IF QuestionType = Type("SHORT_ANSWER")
    THEN ShortAnswerScoring(scores.semantic_similarity, c, Dict.max_marks,
                            similarity_threshold.SHORT_ANSWER)
    ELSE DescriptiveScoring([scores EXCEPT !.key_points_coverage = c],
                            Dict.max_marks, similarity_threshold.DESCRIPTIVE)

\* C10: with similarity (and length_adequacy, coherence) fixed, a larger
\* key_points_coverage never gives a smaller combined score, marks_obtained or
\* percentage, and never turns is_correct from true to false.
C10_CoverageMonotone ==
    (ReturnedNormally /\ QuestionType \in TextTypes)
    => /\ ScoringAt(scores.key_points_coverage) =
            [combined_score |-> scores.combined_score,
             marks_obtained |-> Dict.marks_obtained,
             percentage |-> Dict.percentage,
             is_correct |-> Dict.is_correct]
       /\ LET levels == CoverageLevels \cup {scores.key_points_coverage}
               at == {[c |-> c, s |-> ScoringAt(c)] : c \in levels}
           IN  \A lo, hi \in at :
                    RLe(lo.c, hi.c) =>
                        /\ RLe(lo.s.combined_score, hi.s.combined_score)
                        /\ RLe(lo.s.marks_obtained, hi.s.marks_obtained)
                        /\ RLe(lo.s.percentage, hi.s.percentage)
                        /\ lo.s.is_correct => hi.s.is_correct

\* Half of the key points covered, and full coverage would change the verdict
C10_Witness ==
    /\ ReturnedNormally
    /\ QuestionType = Type("SHORT_ANSWER")
    /\ scores.key_points_coverage = Rat(1, 2)
    /\ ~Dict.is_correct
    /\ ScoringAt(One).is_correct

(***************************************************************************)
(* evaluation_routes: the letter grade                                     *)
(***************************************************************************)
\* Variant: the breakpoint 85 belongs to the lower grade
_calculate_grade_exclusive(percentage) ==
    IF RGe(percentage, RInt(90)) THEN "A+"
    ELSE IF RLt(RInt(85), percentage) THEN "A"
    ELSE IF RGe(percentage, RInt(80)) THEN "A-"
    ELSE IF RGe(percentage, RInt(75)) THEN "B+"
    ELSE IF RGe(percentage, RInt(70)) THEN "B"
    ELSE IF RGe(percentage, RInt(65)) THEN "B-"
    ELSE IF RGe(percentage, RInt(60)) THEN "C+"
    ELSE IF RGe(percentage, RInt(55)) THEN "C"
    ELSE IF RGe(percentage, RInt(50)) THEN "C-"
    ELSE IF RGe(percentage, RInt(45)) THEN "D+"
    ELSE IF RGe(percentage, RInt(40)) THEN "D"
    ELSE "F"

\* evaluation_routes._calculate_grade
_calculate_grade(percentage) ==
    IF RGe(percentage, RInt(90)) THEN "A+"
    ELSE IF RGe(percentage, RInt(85)) THEN "A"
    ELSE IF RGe(percentage, RInt(80)) THEN "A-"
    ELSE IF RGe(percentage, RInt(75)) THEN "B+"
    ELSE IF RGe(percentage, RInt(70)) THEN "B"
    ELSE IF RGe(percentage, RInt(65)) THEN "B-"
    ELSE IF RGe(percentage, RInt(60)) THEN "C+"
    ELSE IF RGe(percentage, RInt(55)) THEN "C"
    ELSE IF RGe(percentage, RInt(50)) THEN "C-"
    ELSE IF RGe(percentage, RInt(45)) THEN "D+"
    ELSE IF RGe(percentage, RInt(40)) THEN "D"
    ELSE "F"

\* The aggregate percentages a caller passes
GradePercentages ==
    {Rat(k, GradeDen) : k \in (-(MaxPercent * GradeDen))..(MaxPercent * GradeDen)}

\* One pending call _calculate_grade(percentage)
InitGrade ==
    /\ EvaluatorIdle
    /\ request \in {[op |-> "_calculate_grade", percentage |-> p] :
                        p \in GradePercentages}
    /\ response = NoResponse
    /\ handler = [at |-> "called"]
    /\ threads = <<>>
    /\ GlobalsUnset

\* The body of _calculate_grade runs to its return
CalculateGrade ==
    /\ request.op = "_calculate_grade"
    /\ handler.at = "called"
    /\ response' = [status |-> 200, grade |-> _calculate_grade(request.percentage)]
    /\ handler' = [at |-> "returned"]
    /\ UNCHANGED <<request, _answer_evaluator, _nlp_processor, _question_generator,
                   threads, built>>
    /\ UNCHANGED evaluatorVars

NextGrade == CalculateGrade

SpecGrade == InitGrade /\ [][NextGrade]_vars

\* The grades from the lowest to the highest
Grades == <<"F", "D", "D+", "C-", "C", "C+", "B-", "B", "B+", "A-", "A", "A+">>
GradeRank(g) == IndexOf(Grades, g)

\* The lower end of each grade above F; a grade ends where the next one starts
GradeFloor == <<40, 40, 45, 50, 55, 60, 65, 70, 75, 80, 85, 90>>

InGradeBand(percentage, i) ==
    /\ i = 1 \/ RGe(percentage, RInt(GradeFloor[i]))
    /\ i = Len(Grades) \/ RLt(percentage, RInt(GradeFloor[i + 1]))

Graded == request.op = "_calculate_grade" /\ handler.at = "returned"

\* C11: _calculate_grade is a total, monotone step function of the percentage:
\* A+ for >= 90, A for [85,90), A- for [80,85), B+ for [75,80), B for [70,75),
\* B- for [65,70), C+ for [60,65), C for [55,60), C- for [50,55), D+ for
\* [45,50), D for [40,45) and F below 40; each breakpoint belongs to the higher
\* grade.
C11_GradeTable ==
    Graded =>
        /\ response.grade \in Range(Grades)
        /\ \A i \in 1..Len(Grades) :
               (response.grade = Grades[i]) <=> InGradeBand(request.percentage, i)
        /\ \A p \in GradePercentages :
               RLe(request.percentage, p) =>
                   GradeRank(response.grade) <= GradeRank(_calculate_grade(p))

\* The breakpoint 85 itself is graded A
C11_Witness ==
    /\ Graded
    /\ request.percentage = RInt(85)
    /\ response.grade = "A"

(***************************************************************************)
(* evaluation_routes: evaluate_submission and batch_evaluate               *)
(***************************************************************************)
\* evaluation.get(key, 0) for a numeric key of an evaluation dict
DictGet(evaluation, key) ==
    IF key \in evaluation.keys THEN evaluation[key] ELSE Zero

\* (obtained / total * 100) if total > 0 else 0
Percentage(obtained, total) ==
    IF RLt(Zero, total) THEN RMul(RDiv(obtained, total), Hundred) ELSE Zero

\* sum(1 for r in results if r['evaluation'].get('is_correct', False))
RECURSIVE CountCorrect(_)
CountCorrect(results) ==
    IF results = <<>> THEN 0
    ELSE (IF "is_correct" \in Head(results).evaluation.keys
             /\ Head(results).evaluation.is_correct THEN 1 ELSE 0)
            + CountCorrect(Tail(results))

\* zip(questions, answers)
Zip(questions, answers) ==
    [i \in 1..(IF Len(questions) < Len(answers) THEN Len(questions)
               ELSE Len(answers)) |->
        [question |-> questions[i], answer |-> answers[i]]]

\* An element of `answers`: a dict with or without question_idx and answer
Answer(idx, text) == [question_idx |-> idx, answer |-> text]

\* What encode() may answer for one graded item (no answer when not reached)
ItemEncodeChoices(q) ==
    IF embeddings_model = "loaded" /\ Get(q.question_type, Type("MCQ")) \in
            {Type("SHORT_ANSWER"), Type("DESCRIPTIVE")}
    THEN EncodeOutcomes ELSE {NoEncode}

\* evaluator.evaluate_answer(question, student_answer) from a handler
Evaluate(q, a, enc) ==
    evaluate_answer(q, a, similarity_threshold, embeddings_model, enc).out

\* The questions and answers of the submissions sent in
SubmitQuestions ==
    {Question(Type("MCQ"), Str(<<"a">>), AbsentStr, AbsentList, AbsentNum, AbsentStr),
     Question(Type("MCQ"), Str(<<"a">>), AbsentStr, AbsentList, Num(2), AbsentStr),
     Question(Type("SHORT_ANSWER"), AbsentStr, Str(Suns \o Bees),
              List(<<<<"s", "u", "n", "s">>>>), AbsentNum, AbsentStr),
     Question(Type("ESSAY"), AbsentStr, AbsentStr, AbsentList, AbsentNum, AbsentStr),
     Question(Type("DESCRIPTIVE"), AbsentStr, Str(Suns), NullList, AbsentNum,
              AbsentStr)}

SubmitAnswers ==
    {Answer(idx, text) : idx \in {AbsentNum, Num(1), Num(MaxQuestions + 1)},
                         text \in {Str(<<"a">>), Str(Suns)}}

QuestionLists == StringsUpTo(SubmitQuestions, MaxQuestions)
AnswerLists == StringsUpTo(SubmitAnswers, MaxAnswers)

\* A second submission of a batch: one MCQ answered correctly
OtherSubmission ==
    [questions |-> <<Question(Type("MCQ"), Str(<<"a">>), AbsentStr, AbsentList,
                              AbsentNum, AbsentStr)>>,
     answers |-> <<Answer(AbsentNum, Str(<<"a">>))>>]

\* One pending request to /evaluate or /batch-evaluate
InitSubmit ==
    /\ EvaluatorIdle
    /\ \E qs \in QuestionLists, as \in AnswerLists :
          \/ request = [op |-> "evaluate_submission", questions |-> qs,
                        answers |-> as]
          \/ \E more \in {<<>>, <<OtherSubmission>>} :
                request = [op |-> "batch_evaluate",
                           submissions |-> <<[questions |-> qs, answers |-> as]>>
                                               \o more]
    /\ response = NoResponse
    /\ handler = [at |-> "called"]
    /\ threads = <<>>
    /\ GlobalsUnset

RouteUnchanged ==
    /\ UNCHANGED <<request, _answer_evaluator, _nlp_processor, _question_generator,
                   threads, built>>
    /\ UNCHANGED evaluatorVars

\* evaluate_submission, lines 32-47: the 400 answer or the start of the loop
SubmissionEnter ==
    /\ request.op = "evaluate_submission"
    /\ handler.at = "called"
    /\ IF request.questions = <<>> \/ request.answers = <<>>
       THEN /\ response' = [status |-> 400]
            /\ handler' = [at |-> "returned"]
       ELSE /\ handler' = [at |-> "loop", pending |-> request.answers,
                           results |-> <<>>, total_marks |-> Zero,
                           marks_obtained |-> Zero]
            /\ UNCHANGED response
    /\ RouteUnchanged

\* Variant: an answer is graded once per question; a later answer that names
\* a question already graded is passed over
SubmissionAnswerOncePerQuestion ==
    /\ request.op = "evaluate_submission"
    /\ handler.at = "loop"
    /\ handler.pending # <<>>
    /\ LET answer_data == Head(handler.pending)
           question_idx == Get(answer_data.question_idx, Num(0)).v
           student_answer_ == Get(answer_data.answer, Str(<<>>)).v
       IN  IF /\ question_idx \in 0..(Len(request.questions) - 1)
              /\ \A j \in DOMAIN handler.results :
                    handler.results[j].question_idx # question_idx
           THEN \E enc \in ItemEncodeChoices(request.questions[question_idx + 1]) :
                  LET evaluation == Evaluate(request.questions[question_idx + 1],
                                             student_answer_, enc)
                  IN  IF evaluation.kind = "raised"
                      THEN /\ response' = [status |-> 500]
                           /\ handler' = [at |-> "returned"]
                      ELSE /\ handler' =
                                [handler EXCEPT
                                    !.pending = Tail(@),
                                    !.total_marks =
                                        RAdd(@, DictGet(evaluation.value, "max_marks")),
                                    !.marks_obtained =
                                        RAdd(@, DictGet(evaluation.value,
                                                        "marks_obtained")),
                                    !.results =
                                        Append(@, [question_idx |-> question_idx,
                                                   evaluation |-> evaluation.value])]
                           /\ UNCHANGED response
           ELSE /\ handler' = [handler EXCEPT !.pending = Tail(@)]
                /\ UNCHANGED response
    /\ RouteUnchanged

\* evaluate_submission, lines 49-66: one turn of `for answer_data in answers`;
\* an exception of evaluate_answer ends the request in the 500 answer (81-83)
SubmissionAnswer ==
    /\ request.op = "evaluate_submission"
    /\ handler.at = "loop"
    /\ handler.pending # <<>>
    /\ LET answer_data == Head(handler.pending)
           question_idx == Get(answer_data.question_idx, Num(0)).v
           student_answer_ == Get(answer_data.answer, Str(<<>>)).v
       IN  IF question_idx \in 0..(Len(request.questions) - 1)
           THEN \E enc \in ItemEncodeChoices(request.questions[question_idx + 1]) :
                  LET evaluation == Evaluate(request.questions[question_idx + 1],
                                             student_answer_, enc)
                  IN  IF evaluation.kind = "raised"
                      THEN /\ response' = [status |-> 500]
                           /\ handler' = [at |-> "returned"]
                      ELSE /\ handler' =
                                [handler EXCEPT
                                    !.pending = Tail(@),
                                    !.total_marks =
                                        RAdd(@, DictGet(evaluation.value, "max_marks")),
                                    !.marks_obtained =
                                        RAdd(@, DictGet(evaluation.value,
                                                        "marks_obtained")),
                                    !.results =
                                        Append(@, [question_idx |-> question_idx,
                                                   evaluation |-> evaluation.value])]
                           /\ UNCHANGED response
           ELSE /\ handler' = [handler EXCEPT !.pending = Tail(@)]
                /\ UNCHANGED response
    /\ RouteUnchanged

\* evaluate_submission, lines 68-80: the summary
SubmissionReturn ==
    /\ request.op = "evaluate_submission"
    /\ handler.at = "loop"
    /\ handler.pending = <<>>
    /\ LET percentage == Percentage(handler.marks_obtained, handler.total_marks)
       IN  response' =
            [status |-> 200,
             results |-> handler.results,
             summary |->
                [total_marks |-> handler.total_marks,
                 marks_obtained |-> Round1(handler.marks_obtained),
                 percentage |-> Round1(percentage),
                 grade |-> _calculate_grade(percentage),
                 questions_correct |-> CountCorrect(handler.results),
                 total_questions |-> Len(handler.results)]]
    /\ handler' = [at |-> "returned"]
    /\ RouteUnchanged

NoSubmissionResult ==
    [results |-> <<>>, total_marks |-> Zero, marks_obtained |-> Zero,
     percentage |-> Zero, grade |-> ""]

\* batch_evaluate, lines 125-129
BatchEnter ==
    /\ request.op = "batch_evaluate"
    /\ handler.at = "called"
    /\ handler' = [at |-> "batch", todo |-> request.submissions,
                   all_results |-> <<>>, pairs |-> <<>>,
                   submission_result |-> NoSubmissionResult]
    /\ UNCHANGED response
    /\ RouteUnchanged

\* batch_evaluate, lines 131-141: the next submission is taken up
BatchSubmission ==
    /\ request.op = "batch_evaluate"
    /\ handler.at = "batch"
    /\ handler.todo # <<>>
    /\ handler' = [handler EXCEPT
                      !.at = "batch_loop",
                      !.todo = Tail(@),
                      !.pairs = Zip(Head(handler.todo).questions,
                                    Head(handler.todo).answers),
                      !.submission_result = NoSubmissionResult]
    /\ UNCHANGED response
    /\ RouteUnchanged

\* batch_evaluate, lines 143-147: one turn of the loop over zip(questions, answers)
BatchAnswer ==
    /\ request.op = "batch_evaluate"
    /\ handler.at = "batch_loop"
    /\ handler.pairs # <<>>
    /\ LET pair == Head(handler.pairs)
       IN  \E enc \in ItemEncodeChoices(pair.question) :
              LET evaluation == Evaluate(pair.question,
                                         Get(pair.answer.answer, Str(<<>>)).v, enc)
              IN  IF evaluation.kind = "raised"
                  THEN /\ response' = [status |-> 500]
                       /\ handler' = [at |-> "returned"]
                  ELSE /\ handler' =
                            [handler EXCEPT
                                !.pairs = Tail(@),
                                !.submission_result.results =
                                    Append(@, evaluation.value),
                                !.submission_result.total_marks =
                                    RAdd(@, DictGet(evaluation.value, "max_marks")),
                                !.submission_result.marks_obtained =
                                    RAdd(@, DictGet(evaluation.value,
                                                    "marks_obtained"))]
                       /\ UNCHANGED response
    /\ RouteUnchanged

\* batch_evaluate, lines 149-154: percentage and grade of one submission
BatchSubmissionDone ==
    /\ request.op = "batch_evaluate"
    /\ handler.at = "batch_loop"
    /\ handler.pairs = <<>>
    /\ LET total == handler.submission_result.total_marks
           obtained == handler.submission_result.marks_obtained
           percentage == Percentage(obtained, total)
       IN  handler' = [handler EXCEPT
                          !.at = "batch",
                          !.all_results =
                              Append(@, [handler.submission_result EXCEPT
                                            !.percentage = percentage,
                                            !.grade = _calculate_grade(percentage)])]
    /\ UNCHANGED response
    /\ RouteUnchanged

\* batch_evaluate, lines 156-160
BatchReturn ==
    /\ request.op = "batch_evaluate"
    /\ handler.at = "batch"
    /\ handler.todo = <<>>
    /\ response' = [status |-> 200, results |-> handler.all_results,
                    total_submissions |-> Len(handler.all_results)]
    /\ handler' = [at |-> "returned"]
    /\ RouteUnchanged

NextSubmit ==
    \/ SubmissionEnter
    \/ SubmissionAnswer
    \/ SubmissionReturn
    \/ BatchEnter
    \/ BatchSubmission
    \/ BatchAnswer
    \/ BatchSubmissionDone
    \/ BatchReturn

SpecSubmit == InitSubmit /\ [][NextSubmit]_vars

\* The sum of one key over evaluation dicts, the unknown-type error counting 0
RECURSIVE SumKey(_, _)
SumKey(evaluations, key) ==
    IF evaluations = <<>> THEN Zero
    ELSE RAdd(IF "error" \in Head(evaluations).keys THEN Zero
              ELSE Head(evaluations)[key],
              SumKey(Tail(evaluations), key))

Handled(op) == request.op = op /\ handler.at = "returned"

\* The answers of the request that name a supplied question
Gradable ==
    {i \in 1..Len(request.answers) :
        Get(request.answers[i].question_idx, Num(0)).v
            \in 0..(Len(request.questions) - 1)}

\* C12: evaluate_submission and batch_evaluate report percentage =
\* (sum of marks_obtained) / (sum of max_marks) * 100 over the evaluated items,
\* and 0 when the sum of max_marks is 0; an item whose evaluation is the
\* unknown-type error adds 0 to both sums and does not stop the remaining
\* items from being evaluated.
C12_Aggregation ==
    /\ (Handled("evaluate_submission") /\ request.questions # <<>>
            /\ request.answers # <<>>)
       => /\ response.status = 200
          /\ Len(response.results) = Cardinality(Gradable)
          /\ LET evaluations == [i \in 1..Len(response.results) |->
                                    response.results[i].evaluation]
             IN  response.summary.percentage =
                     Percentage(SumKey(evaluations, "marks_obtained"),
                                SumKey(evaluations, "max_marks"))
    /\ Handled("batch_evaluate")
       => /\ response.status = 200
          /\ Len(response.results) = Len(request.submissions)
          /\ \A i \in 1..Len(request.submissions) :
                /\ Len(response.results[i].results) =
                       Len(Zip(request.submissions[i].questions,
                               request.submissions[i].answers))
                /\ response.results[i].percentage =
                       Percentage(SumKey(response.results[i].results, "marks_obtained"),
                                  SumKey(response.results[i].results, "max_marks"))

(***************************************************************************)
(* evaluation_routes / lesson_routes: the lazily built globals             *)
(*                                                                         *)
(* Each request thread runs one getter.  A getter tests its global, runs   *)
(* the constructor when it read None, and assigns the global; the test,    *)
(* the constructor call and the assignment are separate steps with no lock *)
(* around them.  A global holds "None" or the serial number of an          *)
(* instance, as a string.                                                  *)
(***************************************************************************)
Threads == 1..NumThreads

Getters == {"get_answer_evaluator", "get_nlp_processor", "get_question_generator"}

Serial(n) == ToString(n)

\* A thread about to call getter g
Entering(g) ==
    [getter |-> g,
     pc |-> CASE g = "get_answer_evaluator" -> "ae_check"
              [] g = "get_nlp_processor" -> "np_check"
              [] OTHER -> "qg_check",
     ret |-> "done", made |-> "None", nlp |-> "None", got |-> "None"]

InitGlobals ==
    /\ EvaluatorIdle
    /\ request = NoRequest
    /\ response = NoResponse
    /\ handler = NoLocals
    /\ threads \in [Threads -> {Entering(g) : g \in Getters}]
    /\ GlobalsUnset

ThreadsUnchanged ==
    /\ UNCHANGED <<request, response, handler>>
    /\ UNCHANGED evaluatorVars

\* NLPProcessor.__init__: the sentence transformer is built when it can be loaded
NLPProcessorBuilt(b) ==
    [b EXCEPT !.NLPProcessor = @ + 1,
              !.SentenceTransformer =
                    IF embeddings_model = "loaded" THEN @ + 1 ELSE @]

\* get_answer_evaluator, line 16: if _answer_evaluator is None
AnswerEvaluatorCheck(t) ==
    /\ threads[t].pc = "ae_check"
    /\ threads' = [threads EXCEPT ![t] =
            IF _answer_evaluator = "None"
            THEN [@ EXCEPT !.pc = "ae_construct"]
            ELSE [@ EXCEPT !.pc = "done", !.got = _answer_evaluator]]
    /\ UNCHANGED <<_answer_evaluator, _nlp_processor, _question_generator, built>>
    /\ ThreadsUnchanged

\* get_answer_evaluator, line 18: AnswerEvaluator(), which builds its own
\* NLPProcessor (answer_evaluator.py 27-31)
AnswerEvaluatorConstruct(t) ==
    /\ threads[t].pc = "ae_construct"
    /\ built' = [NLPProcessorBuilt(built) EXCEPT !.AnswerEvaluator = @ + 1]
    /\ threads' = [threads EXCEPT ![t] =
            [@ EXCEPT !.pc = "ae_assign",
                      !.made = Serial(built.AnswerEvaluator + 1)]]
    /\ UNCHANGED <<_answer_evaluator, _nlp_processor, _question_generator>>
    /\ ThreadsUnchanged

\* get_answer_evaluator, lines 18-19: the assignment and the return
AnswerEvaluatorAssign(t) ==
    /\ threads[t].pc = "ae_assign"
    /\ _answer_evaluator' = threads[t].made
    /\ threads' = [threads EXCEPT ![t] =
            [@ EXCEPT !.pc = "done", !.got = threads[t].made]]
    /\ UNCHANGED <<_nlp_processor, _question_generator, built>>
    /\ ThreadsUnchanged

\* get_nlp_processor, line 17: if _nlp_processor is None
NlpProcessorCheck(t) ==
    /\ threads[t].pc = "np_check"
    /\ threads' = [threads EXCEPT ![t] =
            IF _nlp_processor = "None"
            THEN [@ EXCEPT !.pc = "np_construct"]
            ELSE [@ EXCEPT !.pc = threads[t].ret, !.nlp = _nlp_processor]]
    /\ UNCHANGED <<_answer_evaluator, _nlp_processor, _question_generator, built>>
    /\ ThreadsUnchanged

\* get_nlp_processor, line 19: NLPProcessor()
NlpProcessorConstruct(t) ==
    /\ threads[t].pc = "np_construct"
    /\ built' = NLPProcessorBuilt(built)
    /\ threads' = [threads EXCEPT ![t] =
            [@ EXCEPT !.pc = "np_assign", !.nlp = Serial(built.NLPProcessor + 1)]]
    /\ UNCHANGED <<_answer_evaluator, _nlp_processor, _question_generator>>
    /\ ThreadsUnchanged

\* get_nlp_processor, lines 19-20: the assignment and the return
NlpProcessorAssign(t) ==
    /\ threads[t].pc = "np_assign"
    /\ _nlp_processor' = threads[t].nlp
    /\ threads' = [threads EXCEPT ![t] = [@ EXCEPT !.pc = threads[t].ret]]
    /\ UNCHANGED <<_answer_evaluator, _question_generator, built>>
    /\ ThreadsUnchanged

\* get_question_generator, lines 24-26: the test, then the call of
\* get_nlp_processor() for the constructor's argument
QuestionGeneratorCheck(t) ==
    /\ threads[t].pc = "qg_check"
    /\ threads' = [threads EXCEPT ![t] =
            IF _question_generator = "None"
            THEN [@ EXCEPT !.pc = "np_check", !.ret = "qg_construct"]
            ELSE [@ EXCEPT !.pc = "done", !.got = _question_generator]]
    /\ UNCHANGED <<_answer_evaluator, _nlp_processor, _question_generator, built>>
    /\ ThreadsUnchanged

\* get_question_generator, line 26: QuestionGenerator(nlp_processor)
QuestionGeneratorConstruct(t) ==
    /\ threads[t].pc = "qg_construct"
    /\ built' = [built EXCEPT !.QuestionGenerator = @ + 1]
    /\ threads' = [threads EXCEPT ![t] =
            [@ EXCEPT !.pc = "qg_assign",
                      !.made = Serial(built.QuestionGenerator + 1)]]
    /\ UNCHANGED <<_answer_evaluator, _nlp_processor, _question_generator>>
    /\ ThreadsUnchanged

\* get_question_generator, lines 26-27: the assignment and the return
QuestionGeneratorAssign(t) ==
    /\ threads[t].pc = "qg_assign"
    /\ _question_generator' = threads[t].made
    /\ threads' = [threads EXCEPT ![t] =
            [@ EXCEPT !.pc = "done", !.got = threads[t].made]]
    /\ UNCHANGED <<_answer_evaluator, _nlp_processor, built>>
    /\ ThreadsUnchanged

NextGlobals ==
    \E t \in Threads :
        \/ AnswerEvaluatorCheck(t)
        \/ AnswerEvaluatorConstruct(t)
        \/ AnswerEvaluatorAssign(t)
        \/ NlpProcessorCheck(t)
        \/ NlpProcessorConstruct(t)
        \/ NlpProcessorAssign(t)
        \/ QuestionGeneratorCheck(t)
        \/ QuestionGeneratorConstruct(t)
        \/ QuestionGeneratorAssign(t)

SpecGlobals == InitGlobals /\ [][NextGlobals]_vars

\* The threads that have read the global of getter g as None and are between
\* that test and the assignment
Constructing(g) ==
    {t \in Threads :
        /\ threads[t].getter = g
        /\ threads[t].pc \notin {"ae_check", "np_check", "qg_check", "done"}
             \/ (g = "get_question_generator" /\ threads[t].ret = "qg_construct"
                    /\ threads[t].pc # "done")}

\* C13: under any interleaving of concurrent requests the lazily initialised
\* evaluator, NLP processor and embedding model are constructed at most once per
\* process, and two requests that both find a global unset never both run its
\* constructor.
C13_OneTimeAcquisition ==
    /\ built.AnswerEvaluator <= 1
    /\ built.NLPProcessor <= 1
    /\ built.SentenceTransformer <= 1
    /\ \A g \in Getters : Cardinality(Constructing(g)) <= 1

(***************************************************************************)
(* QuestionGenerator.generate_questions                                    *)
(*                                                                         *)
(* A generated question is modelled by its question_type, topic, unit,     *)
(* marks and, for an MCQ, its options; question_text (a template drawn by  *)
(* random.choice and filled with topic and unit) and the other constant    *)
(* fields are left out.  The language model is outside the repository: a   *)
(* loaded model either generates text or raises on every attempt of the    *)
(* call.                                                                   *)
(***************************************************************************)
Topics == {"t1", "t2"}

\* _generate_options: the template options without a model, the model's text
\* padded to four options with one; _generate_options_with_model answers a
\* failure by calling _generate_options again, which calls it again, until
\* the interpreter raises RecursionError
_generate_options(model, generation_raises, topic) ==
    IF model = "None"
    THEN [raised |-> FALSE,
          options |-> <<"Correct answer related to {topic}",
                        "Incorrect option A about {topic}",
                        "Incorrect option B about {topic}",
                        "Incorrect option C about {topic}">>]
    ELSE IF generation_raises THEN [raised |-> TRUE, options |-> <<>>]
    ELSE [raised |-> FALSE,
          options |-> <<"generated 1", "generated 2", "generated 3", "generated 4">>]

GeneratedQuestion(question_type, topic, unit, marks, options) ==
    [question_type |-> question_type, topic |-> topic, unit |-> unit,
     marks |-> marks, options |-> options]

\* _generate_mcq, _generate_short_answer, _generate_descriptive
_generate_mcq(topic, unit, options) == GeneratedQuestion("MCQ", topic, unit, 1, options)
_generate_short_answer(topic, unit) ==
    GeneratedQuestion("SHORT_ANSWER", topic, unit, 3, <<>>)
_generate_descriptive(topic, unit) ==
    GeneratedQuestion("DESCRIPTIVE", topic, unit, 5, <<>>)

\* topics[i % len(topics)], i counted from 0
TopicFor(topics, i) == topics[(i % Len(topics)) + 1]

\* generate_questions: `raised` when an exception leaves the call
generate_questions(lesson_data, num_mcq, num_short, num_descriptive, model, raises) ==
    LET topics == Get(lesson_data.topics, List(<<>>))
        unit == lesson_data.unit
        options == _generate_options(model, raises, "")
        mcqs == [i \in 1..num_mcq |->
                    _generate_mcq(TopicFor(topics.v, i - 1), unit,
                                  _generate_options(model, raises,
                                                    TopicFor(topics.v, i - 1)).options)]
        shorts == [i \in 1..num_short |->
                    _generate_short_answer(TopicFor(topics.v, i - 1), unit)]
        descriptives == [i \in 1..num_descriptive |->
                    _generate_descriptive(TopicFor(topics.v, i - 1), unit)]
    IN  IF Falsy(topics) THEN [raised |-> FALSE, questions |-> <<>>]
        ELSE IF num_mcq > 0 /\ options.raised
        THEN [raised |-> TRUE, questions |-> <<>>]
        ELSE [raised |-> FALSE, questions |-> mcqs \o shorts \o descriptives]

LessonData(topics) == [topics |-> topics, unit |-> "u"]

TopicLists == {AbsentList, NullList} \cup {List(l) : l \in StringsUpTo(Topics, MaxTopics)}

\* One pending call of generate_questions on a constructed generator
InitGenerate ==
    /\ EvaluatorIdle
    /\ request \in {[op |-> "generate_questions", lesson_data |-> LessonData(l),
                     num_mcq |-> m, num_short |-> n, num_descriptive |-> d] :
                        l \in TopicLists, m \in 0..MaxNum, n \in 0..MaxNum,
                        d \in 0..MaxNum}
    /\ response = NoResponse
    /\ handler = [at |-> "called"]
    /\ threads = <<>>
    /\ _answer_evaluator = "None"
    /\ _nlp_processor = "None"
    /\ _question_generator \in {[model |-> "None"], [model |-> "loaded"]}
    /\ built = NoneBuilt

\* The body of generate_questions runs to its return or its exception
GenerateQuestions ==
    /\ request.op = "generate_questions"
    /\ handler.at = "called"
    /\ \E generation_raises \in BOOLEAN :
          LET r == generate_questions(request.lesson_data, request.num_mcq,
                                      request.num_short, request.num_descriptive,
                                      _question_generator.model, generation_raises)
          IN  response' = [status |-> IF r.raised THEN 500 ELSE 200,
                           questions |-> r.questions]
    /\ handler' = [at |-> "returned"]
    /\ RouteUnchanged

NextGenerate == GenerateQuestions

SpecGenerate == InitGenerate /\ [][NextGenerate]_vars

GivenTopics == Get(request.lesson_data.topics, List(<<>>))

\* The i-th question (from 0) of a block of questions starting after `before`
BlockIs(before, count, question_type) ==
    \A i \in 0..(count - 1) :
        /\ response.questions[before + i + 1].question_type = question_type
        /\ response.questions[before + i + 1].topic =
                GivenTopics.v[(i % Len(GivenTopics.v)) + 1]

\* C14: with a non-empty topics list generate_questions returns exactly
\* num_mcq + num_short + num_descriptive questions: first num_mcq of type MCQ,
\* then num_short SHORT_ANSWER, then num_descriptive DESCRIPTIVE, the i-th of
\* each type on topics[i mod |topics|]; with missing or empty topics it returns
\* the empty list.
C14_GenerateQuestions ==
    Handled("generate_questions") =>
        /\ response.status = 200
        /\ IF GivenTopics.tag = "val" /\ GivenTopics.v # <<>>
           THEN /\ Len(response.questions) =
                        request.num_mcq + request.num_short + request.num_descriptive
                /\ BlockIs(0, request.num_mcq, "MCQ")
                /\ BlockIs(request.num_mcq, request.num_short, "SHORT_ANSWER")
                /\ BlockIs(request.num_mcq + request.num_short,
                           request.num_descriptive, "DESCRIPTIVE")
           ELSE response.questions = <<>>

(***************************************************************************)
(* NLPProcessor.extract_keywords                                           *)
(***************************************************************************)
\* _load_stopwords: the stopwords that can be written with the letters of
\* the texts enumerated here
stopwords ==
    {<<"a">>, <<"a", "n">>, <<"a", "n", "d">>, <<"a", "s">>, <<"c", "a", "n">>}

\* Variant: short words are kept
KeepWordAnyLength(w) == Lower(w) \notin stopwords

\* w.lower() not in self.stopwords and len(w) > 2
KeepWord(w) == Lower(w) \notin stopwords /\ Len(w) > 2

\* The keys of word_freq in insertion order: first occurrences
RECURSIVE FirstOccurrences(_)
FirstOccurrences(words) ==
    IF words = <<>> THEN <<>>
    ELSE LET rest == FirstOccurrences(SubSeq(words, 1, Len(words) - 1))
             last == words[Len(words)]
         IN  IF last \in Range(rest) THEN rest ELSE Append(rest, last)

\* word_freq[w]
CountOf(w, words) == Cardinality({i \in 1..Len(words) : words[i] = w})

\* sorted(word_freq.items(), key=lambda x: x[1], reverse=True): a stable sort,
\* so words of equal frequency keep their insertion order
RECURSIVE SortedByFrequency(_, _)
SortedByFrequency(keys, words) ==
    IF keys = <<>> THEN <<>>
    ELSE LET i == CHOOSE k \in 1..Len(keys) :
                    /\ \A j \in 1..Len(keys) :
                            CountOf(keys[j], words) <= CountOf(keys[k], words)
                    /\ \A j \in 1..(k - 1) :
                            CountOf(keys[j], words) < CountOf(keys[k], words)
         IN  <<keys[i]>> \o
                SortedByFrequency(SubSeq(keys, 1, i - 1)
                                    \o SubSeq(keys, i + 1, Len(keys)), words)

\* seq[:n] of Python, n of either sign
SliceTo(seq, n) ==
    IF n >= 0 THEN SubSeq(seq, 1, IF n < Len(seq) THEN n ELSE Len(seq))
    ELSE SubSeq(seq, 1, Len(seq) + n)

\* NLPProcessor.extract_keywords
extract_keywords(text, max_keywords) ==
    LET words == SelectSeq(_tokenize(text), KeepWord)
        lowered == [i \in 1..Len(words) |-> Lower(words[i])]
        sorted_words == SortedByFrequency(FirstOccurrences(lowered), lowered)
    IN  SliceTo(sorted_words, max_keywords)

\* The words the texts are made of, each with the separator that follows it
KeywordPieces ==
    {<<"S", "u", "n", " ">>, <<"s", "u", "n", ".">>, <<"a", "n", "d", " ">>,
     <<"C", "a", "n", " ">>, <<"d", "n", "a", " ">>, <<"u", "s", " ">>}

RECURSIVE ConcatsUpTo(_, _)
ConcatsUpTo(pieces, n) ==
    IF n = 0 THEN {<<>>}
    ELSE LET shorter == ConcatsUpTo(pieces, n - 1)
         IN  shorter \cup {s \o p : s \in shorter, p \in pieces}

\* One pending call extract_keywords(text, max_keywords)
InitKeywords ==
    /\ EvaluatorIdle
    /\ request \in {[op |-> "extract_keywords", text |-> t, max_keywords |-> k] :
                        t \in ConcatsUpTo(KeywordPieces, MaxTokens),
                        k \in 0..MaxKeywords}
    /\ response = NoResponse
    /\ handler = [at |-> "called"]
    /\ threads = <<>>
    /\ GlobalsUnset

\* The body of extract_keywords runs to its return
ExtractKeywords ==
    /\ request.op = "extract_keywords"
    /\ handler.at = "called"
    /\ response' = [status |-> 200,
                    keywords |-> extract_keywords(request.text, request.max_keywords)]
    /\ handler' = [at |-> "returned"]
    /\ RouteUnchanged

NextKeywords == ExtractKeywords

SpecKeywords == InitKeywords /\ [][NextKeywords]_vars

IsWordChar(c) == c \notin Whitespace \cup Punctuation

\* How often w stands in the text as a whole word, in any casing
Frequency(w, text) ==
    Cardinality({i \in 1..(Len(text) - Len(w) + 1) :
        /\ Lower(SubSeq(text, i, i + Len(w) - 1)) = w
        /\ i = 1 \/ ~IsWordChar(text[i - 1])
        /\ i + Len(w) > Len(text) \/ ~IsWordChar(text[i + Len(w)])})

\* C15: extract_keywords(text, max_keywords) returns at most max_keywords
\* distinct lower-case words, none of them a stopword or shorter than 3
\* characters, ordered by non-increasing frequency in the text; for the empty
\* text it returns the empty list.
C15_Keywords ==
    Handled("extract_keywords") =>
        LET keywords == response.keywords
        IN  /\ Len(keywords) <= request.max_keywords
            /\ \A i, j \in 1..Len(keywords) : i # j => keywords[i] # keywords[j]
            /\ \A i \in 1..Len(keywords) :
                  /\ keywords[i] = Lower(keywords[i])
                  /\ \A c \in Range(keywords[i]) : IsWordChar(c)
                  /\ keywords[i] \notin stopwords
                  /\ Len(keywords[i]) >= 3
                  /\ Frequency(keywords[i], request.text) >= 1
            /\ \A i \in 1..(Len(keywords) - 1) :
                  Frequency(keywords[i], request.text)
                        >= Frequency(keywords[i + 1], request.text)
            /\ request.text = <<>> => keywords = <<>>

\* Two keywords, the more frequent first although it appears later and in two
\* casings, from a text that starts with a stopword
C15_Witness ==
    /\ Handled("extract_keywords")
    /\ request.text = <<"C", "a", "n", " ", "d", "n", "a", " ",
                        "s", "u", "n", ".", "S", "u", "n", " ">>
    /\ response.keywords = <<<<"s", "u", "n">>, <<"d", "n", "a">>>>

(***************************************************************************)
(* NLPProcessor._simple_similarity as a function of two texts              *)
(***************************************************************************)
SimilarityPieces == Pieces \cup {<<"s", "u", "n", "s", "!">>}
SimilarityTexts == ConcatsUpTo(SimilarityPieces, MaxPieces)

\* One pending call _simple_similarity(text1, text2)
InitSimilarity ==
    /\ EvaluatorIdle
    /\ request \in {[op |-> "_simple_similarity", text1 |-> a, text2 |-> b] :
                        a \in SimilarityTexts, b \in SimilarityTexts}
    /\ response = NoResponse
    /\ handler = [at |-> "called"]
    /\ threads = <<>>
    /\ GlobalsUnset

\* The body of _simple_similarity runs to its return
SimpleSimilarity ==
    /\ request.op = "_simple_similarity"
    /\ handler.at = "called"
    /\ response' = [status |-> 200,
                    similarity |-> _simple_similarity(request.text1, request.text2)]
    /\ handler' = [at |-> "returned"]
    /\ RouteUnchanged

NextSimilarity == SimpleSimilarity

SpecSimilarity == InitSimilarity /\ [][NextSimilarity]_vars

\* The normalized word set of a text: its maximal runs of word characters,
\* lower-cased
WordSet(text) ==
    {Lower(SubSeq(text, i, j)) : <<i, j>> \in
        {p \in (1..Len(text)) \X (1..Len(text)) :
            /\ p[1] <= p[2]
            /\ \A k \in p[1]..p[2] : IsWordChar(text[k])
            /\ p[1] = 1 \/ ~IsWordChar(text[p[1] - 1])
            /\ p[2] = Len(text) \/ ~IsWordChar(text[p[2] + 1])}}

Jaccard(A, B) ==
    IF A \cup B = {} THEN Zero
    ELSE Rat(Cardinality(A \cap B), Cardinality(A \cup B))

\* C16: token-overlap similarity is the Jaccard index |intersection| / |union|
\* of the two normalized word sets (lower-cased, punctuation removed, split on
\* whitespace); it is symmetric, 1.0 for two texts with the same non-empty word
\* set, 0.0 for disjoint word sets and 0.0 when both word sets are empty.
C16_Jaccard ==
    Handled("_simple_similarity") =>
        LET A == WordSet(request.text1)
            B == WordSet(request.text2)
        IN  /\ response.similarity = Jaccard(A, B)
            /\ response.similarity = _simple_similarity(request.text2, request.text1)
            /\ (A = B /\ A # {}) => response.similarity = One
            /\ A \cap B = {} => response.similarity = Zero
            /\ (A = {} /\ B = {}) => response.similarity = Zero

\* Two different texts with the same two words, in other casing and order
C16_Witness ==
    /\ Handled("_simple_similarity")
    /\ request.text1 = Suns \o Bees
    /\ request.text2 = Bees \o <<"s", "u", "n", "s", "!">>
    /\ response.similarity = One

(***************************************************************************)
(* Key points                                                              *)
(***************************************************************************)
\* The text occurs in the answer at position pos, letter case aside
OccursAt(text, answer, pos) ==
    /\ pos + Len(text) - 1 <= Len(answer)
    /\ \A k \in 1..Len(text) : LowerChar(answer[pos + k - 1]) = LowerChar(text[k])

\* The point has a whitespace-separated word of more than 3 characters that
\* occurs in the answer
Covers(answer, point) ==
    \E i, j \in 1..Len(point) :
        /\ j - i + 1 > 3
        /\ \A k \in i..j : point[k] \notin Whitespace
        /\ i = 1 \/ point[i - 1] \in Whitespace
        /\ j = Len(point) \/ point[j + 1] \in Whitespace
        /\ \E pos \in 1..Len(answer) : OccursAt(SubSeq(point, i, j), answer, pos)

\* A text branch has computed its sub-scores and key_points is a list
CoverageComputed ==
    /\ ReturnedNormally
    /\ QuestionType \in TextTypes

GivenKeyPoints == Get(question.key_points, List(<<>>)).v

\* C17: a key point is covered exactly when at least one of its
\* whitespace-separated words of length > 3 occurs, case-insensitively, as a
\* substring of the student answer; key_points_coverage = covered_count /
\* |key_points|, and it is exactly 1.0 when key_points is empty.
C17_Coverage ==
    CoverageComputed =>
        LET covered == {i \in 1..Len(GivenKeyPoints) :
                            Covers(student_answer, GivenKeyPoints[i])}
        IN  /\ \A i \in 1..Len(GivenKeyPoints) :
                  PointCovered(student_answer, GivenKeyPoints[i]) <=> i \in covered
            /\ scores.key_points_coverage =
                  IF GivenKeyPoints = <<>> THEN One
                  ELSE Rat(Cardinality(covered), Len(GivenKeyPoints))
            /\ QuestionType = Type("SHORT_ANSWER") =>
                  Dict.key_points_coverage =
                        Round1(RMul(scores.key_points_coverage, Hundred))

\* One of two points is covered: 'Bees dna' by 'bees' inside 'bees.', while
\* 'dna' stays uncovered although the answer holds it
C17_Witness ==
    /\ CoverageComputed
    /\ Len(GivenKeyPoints) = 2
    /\ student_answer = Dna \o Bees
    /\ scores.key_points_coverage = Rat(1, 2)

\* C18: missing_points is exactly the subsequence of key_points, in their
\* original order, that the coverage check does not count as covered; for
\* non-empty key_points key_points_coverage = (|key_points| - |missing_points|)
\* / |key_points|, and missing_points is empty exactly when coverage is 1.0.
C18_MissingPoints ==
    CoverageComputed =>
        /\ Dict.missing_points =
                SelectSeq(GivenKeyPoints, LAMBDA point : ~Covers(student_answer, point))
        /\ GivenKeyPoints # <<>> =>
                scores.key_points_coverage =
                    Rat(Len(GivenKeyPoints) - Len(Dict.missing_points),
                        Len(GivenKeyPoints))
        /\ Dict.missing_points = <<>> <=> scores.key_points_coverage = One

\* The second of two points is covered and the first is reported missing
C18_Witness ==
    /\ CoverageComputed
    /\ Len(GivenKeyPoints) = 2
    /\ Dict.missing_points = <<GivenKeyPoints[1]>>
    /\ IsSubstring(GivenKeyPoints[1], student_answer)

(***************************************************************************)
(* Text scoring                                                            *)
(***************************************************************************)
Weighted(score, percent) == RMul(score, Rat(percent, 100))

\* C19: SHORT_ANSWER scoring: combined_score = similarity * 0.6 +
\* key_points_coverage * 0.4; is_correct exactly when combined_score >= 0.6, the
\* boundary included; marks_obtained = round(combined_score * max_marks, 1) and
\* percentage = round(combined_score * 100, 1).
C19_ShortAnswerScoring ==
    (ReturnedNormally /\ QuestionType = Type("SHORT_ANSWER")) =>
        LET combined == RAdd(Weighted(scores.semantic_similarity, 60),
                             Weighted(scores.key_points_coverage, 40))
        IN  /\ scores.combined_score = combined
            /\ Dict.is_correct <=> ~RLt(combined, Rat(6, 10))
            /\ Dict.max_marks = GivenMarks
            /\ Dict.marks_obtained = Round1(RMul(combined, GivenMarks))
            /\ Dict.percentage = Round1(RMul(combined, Hundred))

\* A score of exactly 0.6 from the token overlap 1/3 and full coverage is
\* graded correct
C19_Witness ==
    /\ ReturnedNormally
    /\ QuestionType = Type("SHORT_ANSWER")
    /\ scores.semantic_similarity = Rat(1, 3)
    /\ scores.key_points_coverage = One
    /\ scores.combined_score = Rat(6, 10)
    /\ Dict.is_correct
    /\ Dict.percentage = RInt(60)

\* C20: DESCRIPTIVE scoring: combined_score = semantic_similarity * 0.4 +
\* key_points_coverage * 0.3 + length_adequacy * 0.15 + coherence * 0.15, the
\* weights summing to 1; is_correct exactly when combined_score >= 0.5;
\* detailed_scores holds exactly these four sub-scores, each times 100 rounded
\* to one decimal.
C20_DescriptiveScoring ==
    (ReturnedNormally /\ QuestionType = Type("DESCRIPTIVE")) =>
        LET combined ==
                RAdd(RAdd(Weighted(scores.semantic_similarity, 40),
                          Weighted(scores.key_points_coverage, 30)),
                     RAdd(Weighted(scores.length_adequacy, 15),
                          Weighted(scores.coherence, 15)))
        IN  /\ RAdd(RAdd(Weighted(One, 40), Weighted(One, 30)),
                    RAdd(Weighted(One, 15), Weighted(One, 15))) = One
            /\ scores.combined_score = combined
            /\ Dict.is_correct <=> ~RLt(combined, Rat(1, 2))
            /\ scores.length_adequacy =
                    _check_length_adequacy(student_answer, "DESCRIPTIVE")
            /\ scores.coherence = _check_coherence(student_answer)
            /\ DOMAIN Dict.detailed_scores =
                    {"semantic_similarity", "key_points_coverage",
                     "length_adequacy", "coherence"}
            /\ \A k \in DOMAIN Dict.detailed_scores :
                    Dict.detailed_scores[k] = Round1(RMul(scores[k], Hundred))

\* A correct descriptive answer with four different sub-scores
C20_Witness ==
    /\ ReturnedNormally
    /\ QuestionType = Type("DESCRIPTIVE")
    /\ Dict.is_correct
    /\ Dict.detailed_scores.semantic_similarity = Hundred
    /\ Dict.detailed_scores.key_points_coverage = RInt(50)
    /\ Dict.detailed_scores.length_adequacy = RInt(2)
    /\ Dict.detailed_scores.coherence = RInt(50)

(***************************************************************************)
(* Feedback                                                                *)
(***************************************************************************)
Excellent == <<"Excellent answer! You've covered the topic comprehensively.">>
Good == <<"Good answer. Consider adding more details about the key concepts.">>
Satisfactory ==
    <<"Satisfactory answer. Try to cover more key points and provide examples.">>
NeedsImprovement ==
    <<"Answer needs improvement. Review the topic and include main concepts.">>

\* The bands of combined_score, each closed below and open above
InBand(score, message) ==
    CASE message = Excellent -> RLe(Rat(8, 10), score)
      [] message = Good -> RLe(Rat(6, 10), score) /\ RLt(score, Rat(8, 10))
      [] message = Satisfactory -> RLe(Rat(4, 10), score) /\ RLt(score, Rat(6, 10))
      [] message = NeedsImprovement -> RLt(score, Rat(4, 10))

ShortAnswerGraded == ReturnedNormally /\ QuestionType = Type("SHORT_ANSWER")

\* C21: the feedback of a SHORT_ANSWER result is the message of the one band
\* that holds combined_score: >= 0.8 Excellent, [0.6, 0.8) Good, [0.4, 0.6)
\* Satisfactory, below 0.4 needs improvement; every score is in exactly one
\* band and a boundary value belongs to the band above it.
C21_FeedbackBands ==
    ShortAnswerGraded =>
        LET messages == {Excellent, Good, Satisfactory, NeedsImprovement}
        IN  /\ Dict.feedback \in messages
            /\ \A m \in messages :
                    InBand(scores.combined_score, m) <=> Dict.feedback = m

\* A combined score of exactly 0.8, from similarity 1 and half of the key
\* points, gets the Excellent message
C21_Witness ==
    /\ ShortAnswerGraded
    /\ scores.combined_score = Rat(8, 10)
    /\ scores.key_points_coverage = Rat(1, 2)
    /\ Dict.feedback = Excellent

(***************************************************************************)
(* AnswerEvaluator._check_length_adequacy as a function of the word count  *)
(***************************************************************************)
\* One pending call _check_length_adequacy(answer, question_type) on an answer
\* of word_count words
InitLength ==
    /\ EvaluatorIdle
    /\ request \in {[op |-> "_check_length_adequacy", word_count |-> w,
                     question_type |-> t] :
                        w \in 0..MaxWordCount, t \in {"SHORT_ANSWER", "DESCRIPTIVE"}}
    /\ response = NoResponse
    /\ handler = [at |-> "called"]
    /\ threads = <<>>
    /\ GlobalsUnset

\* The body of _check_length_adequacy after the word count runs to its return
CheckLengthAdequacy ==
    /\ request.op = "_check_length_adequacy"
    /\ handler.at = "called"
    /\ response' = [status |-> 200,
                    length_adequacy |->
                        LengthAdequacyOf(request.word_count, request.question_type)]
    /\ handler' = [at |-> "returned"]
    /\ RouteUnchanged

NextLength == CheckLengthAdequacy

SpecLength == InitLength /\ [][NextLength]_vars

\* The word bounds the length rule is stated with
StatedMin(question_type) == IF question_type = "DESCRIPTIVE" THEN 100 ELSE 20
StatedMax(question_type) == IF question_type = "DESCRIPTIVE" THEN 500 ELSE 100

\* C22: with (min, max) = (100, 500) for DESCRIPTIVE and (20, 100) for
\* SHORT_ANSWER, length_adequacy of w words is w / min below min, 1 from min
\* to max and the greater of 0.5 and 1 - (w - max) / max above max; it lies in
\* [0, 1], is 0 only for w = 0 and is at least 0.5 for every answer above max.
C22_LengthAdequacy ==
    Handled("_check_length_adequacy") =>
        LET w == request.word_count
            lo == StatedMin(request.question_type)
            hi == StatedMax(request.question_type)
            r == response.length_adequacy
            penalized == RSub(One, Rat(w - hi, hi))
        IN  /\ w < lo => RMul(r, RInt(lo)) = RInt(w)
            /\ (lo <= w /\ w <= hi) => r = One
            /\ w > hi => /\ r \in {Rat(1, 2), penalized}
                         /\ RLe(Rat(1, 2), r)
                         /\ RLe(penalized, r)
            /\ RLe(Zero, r) /\ RLe(r, One)
            /\ r = Zero <=> w = 0
            /\ w > hi => RLe(Rat(1, 2), r)

\* A DESCRIPTIVE answer of more than one and a half times the maximum is held
\* at 0.5
C22_Witness ==
    /\ Handled("_check_length_adequacy")
    /\ request.question_type = "DESCRIPTIVE"
    /\ request.word_count > 750
    /\ response.length_adequacy = Rat(1, 2)

(***************************************************************************)
(* AnswerEvaluator._check_coherence as a function of the answer            *)
(***************************************************************************)
\* A word, a full stop, and a run of two marks followed by a blank
CoherencePieces == {<<"a", " ">>, <<".">>, <<"!", "?", " ">>}
CoherenceTexts == ConcatsUpTo(CoherencePieces, MaxFragments)

\* One pending call _check_coherence(answer)
InitCoherence ==
    /\ EvaluatorIdle
    /\ request \in {[op |-> "_check_coherence", answer |-> a] : a \in CoherenceTexts}
    /\ response = NoResponse
    /\ handler = [at |-> "called"]
    /\ threads = <<>>
    /\ GlobalsUnset

\* The body of _check_coherence runs to its return
CheckCoherence ==
    /\ request.op = "_check_coherence"
    /\ handler.at = "called"
    /\ response' = [status |-> 200, coherence |-> _check_coherence(request.answer)]
    /\ handler' = [at |-> "returned"]
    /\ RouteUnchanged

NextCoherence == CheckCoherence

SpecCoherence == InitCoherence /\ [][NextCoherence]_vars

\* The sentences of a text by positions: the maximal runs free of '.', '!'
\* and '?' that hold something other than whitespace
SentenceSpans(text) ==
    {p \in (1..Len(text)) \X (1..Len(text)) :
        /\ p[1] <= p[2]
        /\ \A k \in p[1]..p[2] : text[k] \notin Punctuation
        /\ p[1] = 1 \/ text[p[1] - 1] \in Punctuation
        /\ p[2] = Len(text) \/ text[p[2] + 1] \in Punctuation
        /\ \E k \in p[1]..p[2] : text[k] \notin Whitespace}

\* The number of words between two positions: the places where a word starts
WordsIn(text, p) ==
    Cardinality({k \in p[1]..p[2] :
        /\ text[k] \notin Whitespace
        /\ k = p[1] \/ text[k - 1] \in Whitespace})

\* C23: coherence splits the answer on runs of '.', '!' or '?' and drops the
\* blank fragments; with fewer than 2 sentences left the score is 0.5,
\* otherwise the share of the sentences that have at least 3 words; the score
\* lies in [0, 1].
C23_Coherence ==
    Handled("_check_coherence") =>
        LET spans == SentenceSpans(request.answer)
            long == {p \in spans : WordsIn(request.answer, p) >= 3}
            r == response.coherence
        IN  /\ Cardinality(spans) < 2 => r = Rat(1, 2)
            /\ Cardinality(spans) >= 2 => r = Rat(Cardinality(long), Cardinality(spans))
            /\ RLe(Zero, r) /\ RLe(r, One)

\* Three sentences, one of three words, with a blank fragment between two runs
\* of marks: a third of the sentences count
C23_Witness ==
    /\ Handled("_check_coherence")
    /\ request.answer = <<"a", " ", "a", " ", "a", " ", "!", "?", " ", ".",
                          "a", " ", ".", "a", " ">>
    /\ response.coherence = Rat(1, 3)

(***************************************************************************)
(* The feedback of _evaluate_descriptive as a function of its four scores  *)
(***************************************************************************)
ScoreLevels == {Rat(k, ScoreDen) : k \in 0..ScoreDen}

\* _evaluate_descriptive has filled its `scores` dict
InitFeedback ==
    /\ EvaluatorIdle
    /\ request \in {[op |-> "_evaluate_descriptive feedback",
                     scores |-> [NoDetailed EXCEPT
                                    !.semantic_similarity = s,
                                    !.key_points_coverage = k,
                                    !.length_adequacy = l,
                                    !.coherence = c]] :
                        s \in ScoreLevels, k \in ScoreLevels,
                        l \in ScoreLevels, c \in ScoreLevels}
    /\ response = NoResponse
    /\ handler = [at |-> "called"]
    /\ threads = <<>>
    /\ GlobalsUnset

\* The 'feedback' and 'improvement_suggestions' entries of the result
DescriptiveFeedback ==
    /\ request.op = "_evaluate_descriptive feedback"
    /\ handler.at = "called"
    /\ response' = [status |-> 200,
                    feedback |-> _generate_detailed_feedback(request.scores),
                    improvement_suggestions |->
                        _get_improvement_suggestions(request.scores)]
    /\ handler' = [at |-> "returned"]
    /\ RouteUnchanged

NextFeedback == DescriptiveFeedback

SpecFeedback == InitFeedback /\ [][NextFeedback]_vars

\* The feedback clauses in their order, and the positive summary
Clauses ==
    <<"Your answer needs to focus more on the main topic.",
      "Try to cover more key points in your answer.",
      "Consider providing more detailed explanations.",
      "Improve the structure and flow of your answer.">>
PositiveSummary == "Excellent work! Your answer is comprehensive and well-structured."

\* The sub-scores below their thresholds, as indices of Clauses
Triggered(sc) ==
    {i \in 1..4 :
        CASE i = 1 -> RLt(sc.semantic_similarity, Rat(1, 2))
          [] i = 2 -> RLt(sc.key_points_coverage, Rat(6, 10))
          [] i = 3 -> RLt(sc.length_adequacy, Rat(7, 10))
          [] i = 4 -> RLt(sc.coherence, Rat(7, 10))}

Occurrences(seq, x) == Cardinality({j \in DOMAIN seq : seq[j] = x})

\* C24: DESCRIPTIVE feedback holds the clause of a sub-score exactly when the
\* sub-score is below its threshold (semantic_similarity < 0.5,
\* key_points_coverage < 0.6, length_adequacy < 0.7, coherence < 0.7), each
\* clause at most once and the clauses in this order; it is the one positive
\* summary sentence exactly when no sub-score is below its threshold.
C24_DetailedFeedback ==
    Handled("_evaluate_descriptive feedback") =>
        LET triggered == Triggered(request.scores)
            feedback == response.feedback
        IN  /\ \A i \in 1..4 :
                    Occurrences(feedback, Clauses[i]) = IF i \in triggered THEN 1 ELSE 0
            /\ \A j, k \in DOMAIN feedback : \A a, b \in 1..4 :
                    (j < k /\ feedback[j] = Clauses[a] /\ feedback[k] = Clauses[b])
                        => a < b
            /\ feedback = <<PositiveSummary>> <=> triggered = {}
            /\ triggered # {} => Len(feedback) = Cardinality(triggered)

\* Sub-scores exactly on their four thresholds get the positive summary
C24_Witness ==
    /\ Handled("_evaluate_descriptive feedback")
    /\ request.scores.semantic_similarity = Rat(1, 2)
    /\ request.scores.key_points_coverage = Rat(6, 10)
    /\ request.scores.length_adequacy = Rat(7, 10)
    /\ request.scores.coherence = Rat(7, 10)
    /\ response.feedback = <<PositiveSummary>>

\* The suggestions in their order; suggestion i goes with clause i + 1
Suggestions ==
    <<"Include all key concepts mentioned in the lesson",
      "Provide more detailed explanations with examples",
      "Use clear paragraph structure with topic sentences">>

\* C25: improvement_suggestions is the list of the suggestions of the
\* triggered conditions among key_points_coverage < 0.6, length_adequacy < 0.7
\* and coherence < 0.7, one each and in this order, with none for
\* semantic_similarity; it is empty when the feedback is the positive summary
\* and every suggestion has its feedback clause in the same result.
C25_Suggestions ==
    Handled("_evaluate_descriptive feedback") =>
        LET triggered == Triggered(request.scores) \ {1}
            suggestions == response.improvement_suggestions
        IN  /\ \A i \in 1..3 :
                    Occurrences(suggestions, Suggestions[i]) =
                        IF i + 1 \in triggered THEN 1 ELSE 0
            /\ Len(suggestions) = Cardinality(triggered)
            /\ \A j, k \in DOMAIN suggestions : \A a, b \in 1..3 :
                    (j < k /\ suggestions[j] = Suggestions[a]
                           /\ suggestions[k] = Suggestions[b]) => a < b
            /\ response.feedback = <<PositiveSummary>> => suggestions = <<>>
            /\ \A i \in 1..3 :
                    Occurrences(suggestions, Suggestions[i]) > 0
                        => Occurrences(response.feedback, Clauses[i + 1]) > 0

\* Only semantic_similarity is low: a feedback clause and no suggestion
C25_Witness ==
    /\ Handled("_evaluate_descriptive feedback")
    /\ RLt(request.scores.semantic_similarity, Rat(1, 2))
    /\ response.feedback = <<Clauses[1]>>
    /\ response.improvement_suggestions = <<>>

(***************************************************************************)
(* QuestionGenerator._generate_options, call by call                       *)
(***************************************************************************)
\* The template options of _generate_options
TemplateOptions ==
    <<"Correct answer related to {topic}", "Incorrect option A about {topic}",
      "Incorrect option B about {topic}", "Incorrect option C about {topic}">>

\* generated.split('\n')[:4] of a text of `lines` lines, padded to 4 options
ModelOptions(lines) ==
    [i \in 1..4 |-> IF i <= lines THEN "generated line" ELSE "Option {i} about {topic}"]

\* One pending call _generate_options(topic, unit, subject) on a generator
\* whose model is None or loaded
InitOptions ==
    /\ EvaluatorIdle
    /\ request \in {[op |-> "_generate_options", topic |-> t] : t \in Topics}
    /\ response = NoResponse
    /\ handler = [at |-> "_generate_options", depth |-> 1]
    /\ threads = <<>>
    /\ _answer_evaluator = "None"
    /\ _nlp_processor = "None"
    /\ _question_generator \in {[model |-> "None"], [model |-> "loaded"]}
    /\ built = NoneBuilt

\* A call that would exceed the interpreter's stack raises RecursionError,
\* which no frame above handles: each frame is in its except clause or
\* outside any try
RecursionError ==
    /\ response' = [status |-> 500, options |-> <<>>, exc |-> "RecursionError"]
    /\ handler' = [handler EXCEPT !.at = "raised"]

\* _generate_options: with a model, call _generate_options_with_model; without
\* one, return the template options
GenerateOptions ==
    /\ request.op = "_generate_options"
    /\ handler.at = "_generate_options"
    /\ IF _question_generator.model # "None"
       THEN IF handler.depth >= RecursionLimit THEN RecursionError
            ELSE /\ handler' = [at |-> "_generate_options_with_model",
                                depth |-> handler.depth + 1]
                 /\ UNCHANGED response
       ELSE /\ response' = [status |-> 200, options |-> TemplateOptions, exc |-> ""]
            /\ handler' = [handler EXCEPT !.at = "returned"]
    /\ RouteUnchanged

\* _generate_options_with_model: the model's text gives the options, or the
\* tokenizer or the model raises and the handler calls _generate_options
GenerateOptionsWithModel ==
    /\ request.op = "_generate_options"
    /\ handler.at = "_generate_options_with_model"
    /\ \/ \E lines \in 1..MaxLines :
            /\ response' = [status |-> 200, options |-> ModelOptions(lines), exc |-> ""]
            /\ handler' = [handler EXCEPT !.at = "returned"]
       \/ IF handler.depth >= RecursionLimit THEN RecursionError
          ELSE /\ handler' = [at |-> "_generate_options", depth |-> handler.depth + 1]
               /\ UNCHANGED response
    /\ RouteUnchanged

NextOptions ==
    \/ GenerateOptions
    \/ GenerateOptionsWithModel

SpecOptions == InitOptions /\ [][NextOptions]_vars

\* C26: a call of _generate_options that is over has returned exactly 4
\* options, also when the model is loaded and its tokenizer or generate call
\* raises: the failure path ends in the template options.
C26_FourOptions ==
    (request.op = "_generate_options" /\ handler.at \in {"returned", "raised"}) =>
        /\ handler.at = "returned"
        /\ Len(response.options) = 4

(***************************************************************************)
(* Score ranges                                                            *)
(***************************************************************************)
\* Questions of the three known types whose marks are absent, an int, or a
\* float with two decimals
RangeQuestions ==
    {Question(Type("MCQ"), Str(<<"a">>), AbsentStr, AbsentList, m, AbsentStr) :
        m \in {AbsentNum, Num(2), Float(256, 100)}}
    \cup
    {Question(t, AbsentStr, e, k, m, AbsentStr) :
        t \in TextTypes,
        e \in {Str(<<>>), Str(Suns \o Bees)},
        k \in KeyPointLists \ {NullList},
        m \in {AbsentNum, Num(2), Float(256, 100)}}

InitRange == InitCall(RangeQuestions, EvalAnswers)

SpecRange == InitRange /\ [][NextEvaluate]_vars

InUnit(x) == RLe(Zero, x) /\ RLe(x, One)
InPercent(x) == RLe(Zero, x) /\ RLe(x, Hundred)

\* C27: when the similarity is in [0, 1] and max_marks is positive, a result of
\* evaluate_answer for a known type has 0 <= marks_obtained <= max_marks and
\* 0 <= percentage <= 100, and the sub-scores it reports (semantic_similarity,
\* key_points_coverage, detailed_scores) lie in [0, 100].
C27_ScoreRange ==
    (/\ ReturnedNormally
     /\ QuestionType \in KnownTypes
     /\ InUnit(scores.semantic_similarity)
     /\ RLt(Zero, Dict.max_marks)) =>
        /\ RLe(Zero, Dict.marks_obtained)
        /\ RLe(Dict.marks_obtained, Dict.max_marks)
        /\ InPercent(Dict.percentage)
        /\ QuestionType = Type("SHORT_ANSWER") =>
                /\ InPercent(Dict.semantic_similarity)
                /\ InPercent(Dict.key_points_coverage)
        /\ QuestionType = Type("DESCRIPTIVE") =>
                \A k \in DOMAIN Dict.detailed_scores :
                    InPercent(Dict.detailed_scores[k])

\* The same ranges with marks_obtained <= max_marks + 0.05, half a rounding step
ScoreRangeButMarks ==
    (/\ ReturnedNormally
     /\ QuestionType \in KnownTypes
     /\ InUnit(scores.semantic_similarity)
     /\ RLt(Zero, Dict.max_marks)) =>
        /\ RLe(Zero, Dict.marks_obtained)
        /\ RLe(Dict.marks_obtained, RAdd(Dict.max_marks, Rat(1, 20)))
        /\ InPercent(Dict.percentage)
        /\ QuestionType = Type("SHORT_ANSWER") =>
                /\ InPercent(Dict.semantic_similarity)
                /\ InPercent(Dict.key_points_coverage)
        /\ QuestionType = Type("DESCRIPTIVE") =>
                \A k \in DOMAIN Dict.detailed_scores :
                    InPercent(Dict.detailed_scores[k])

(***************************************************************************)
(* Key points of short words                                               *)
(***************************************************************************)
ASun == <<"a", " ", "s", "u", "n">>
ShortPointLists ==
    {List(<<<<"d", "n", "a">>>>),
     List(<<ASun>>),
     List(<<ASun, <<"s", "u", "n", "s">>>>),
     List(<<<<"D", "N", "A">>, <<"B", "e", "e", "s", " ", "d", "n", "a">>>>)}

ShortPointQuestions ==
    {Question(t, AbsentStr, Str(Suns), k, AbsentNum, AbsentStr) :
        t \in TextTypes, k \in ShortPointLists}

ShortPointAnswers ==
    ConcatsUpTo({ASun, <<" ">>, Dna, Suns, <<"D", "N", "A", " ">>}, MaxPieces)

InitShortPoints == InitCall(ShortPointQuestions, ShortPointAnswers)

SpecShortPoints == InitShortPoints /\ [][NextEvaluate]_vars

\* No word of the point has more than 3 characters
ShortWordsOnly(point) ==
    \A p \in (1..Len(point)) \X (1..Len(point)) :
        (p[1] <= p[2] /\ \A k \in p[1]..p[2] : point[k] \notin Whitespace)
            => p[2] - p[1] + 1 <= 3

\* C28: a key point none of whose words is longer than 3 characters is never
\* counted as covered and is always in missing_points, whatever the answer,
\* also when the answer contains the point verbatim; with such a point among
\* the key points key_points_coverage is below 1.0.
C28_ShortKeyPoints ==
    CoverageComputed =>
        LET short == {i \in DOMAIN GivenKeyPoints : ShortWordsOnly(GivenKeyPoints[i])}
            n == Len(GivenKeyPoints)
        IN  short # {} =>
                /\ \A i \in short : GivenKeyPoints[i] \in Range(Dict.missing_points)
                /\ RLe(scores.key_points_coverage, Rat(n - Cardinality(short), n))
                /\ RLt(scores.key_points_coverage, One)

\* The answer is the key point 'a sun' twice, verbatim, and the point is still
\* reported missing, with coverage 0
C28_Witness ==
    /\ CoverageComputed
    /\ GivenKeyPoints = <<ASun>>
    /\ student_answer = ASun \o ASun
    /\ Dict.missing_points = <<ASun>>
    /\ scores.key_points_coverage = Zero

(***************************************************************************)
(* The loop of evaluate_submission                                         *)
(***************************************************************************)
\* Questions graded without the encoder: two MCQs of 2 and of 2.56 marks, an MCQ
\* whose correct_answer is None, on which evaluate_answer raises, and a question
\* of an unknown type
LoopQuestions ==
    {Question(Type("MCQ"), Str(<<"a">>), AbsentStr, AbsentList, Num(2), AbsentStr),
     Question(Type("MCQ"), Str(<<"a">>), AbsentStr, AbsentList, Float(256, 100),
              AbsentStr),
     Question(Type("MCQ"), NullStr, AbsentStr, AbsentList, AbsentNum, AbsentStr),
     Question(Type("ESSAY"), AbsentStr, AbsentStr, AbsentList, AbsentNum, AbsentStr)}

\* Answers without question_idx, with question_idx 1, and with an index past
\* the last question
LoopAnswers ==
    {Answer(AbsentNum, Str(<<"a">>)), Answer(Num(1), Str(<<"b">>)),
     Answer(Num(MaxQuestions + 1), Str(<<"a">>))}

\* One pending request to /evaluate
InitLoop ==
    /\ EvaluatorIdle
    /\ request \in {[op |-> "evaluate_submission", questions |-> qs, answers |-> as] :
                        qs \in StringsUpTo(LoopQuestions, MaxQuestions),
                        as \in StringsUpTo(LoopAnswers, MaxAnswers)}
    /\ response = NoResponse
    /\ handler = [at |-> "called"]
    /\ threads = <<>>
    /\ GlobalsUnset

NextLoop ==
    \/ SubmissionEnter
    \/ SubmissionAnswer
    \/ SubmissionReturn

SpecLoop == InitLoop /\ [][NextLoop]_vars

\* The question_idx of answer i, 0 when the answer has none
QuestionIdx(i) == Get(request.answers[i].question_idx, Num(0)).v

\* The first n answers that name a supplied question, in their order
RECURSIVE GradedAmong(_)
GradedAmong(n) ==
    IF n = 0 THEN <<>>
    ELSE GradedAmong(n - 1) \o (IF n \in Gradable THEN <<n>> ELSE <<>>)

\* results is what grading the first n answers gives, and the totals are its sums
LoopInvariant(n, results, total_marks, marks_obtained) ==
    LET graded == GradedAmong(n)
        evaluations == [j \in 1..Len(results) |-> results[j].evaluation]
    IN  /\ Len(results) = Len(graded)
        /\ \A j \in 1..Len(graded) :
              LET q == request.questions[QuestionIdx(graded[j]) + 1]
                  text == Get(request.answers[graded[j]].answer, Str(<<>>)).v
              IN  /\ results[j].question_idx = QuestionIdx(graded[j])
                  /\ \E enc \in ItemEncodeChoices(q) :
                        results[j].evaluation = Evaluate(q, text, enc).value
        /\ total_marks = SumKey(evaluations, "max_marks")
        /\ marks_obtained = SumKey(evaluations, "marks_obtained")
        /\ CountCorrect(results) <= Len(results)

TypeOmitted == Done /\ question.question_type = AbsentType

\* C30: a question that has no question_type field is graded by the MCQ
\* branch and is not reported as an unknown type: the result has question_type
\* 'MCQ', and is_correct holds exactly when the answer and correct_answer are
\* the same after upper-casing and stripping.
C30_DefaultsToMcq ==
    TypeOmitted =>
        /\ scores.branch = "MCQ"
        /\ ReturnedNormally =>
                /\ "error" \notin Dict.keys
                /\ Dict.keys = McqKeys
                /\ Dict.question_type = "MCQ"
                /\ Dict.is_correct <=>
                        SameLetter(student_answer,
                                   Get(question.correct_answer, Str(<<>>)).v)

\* The answer 'A ' to a question with correct_answer 'a' and no question_type
\* is graded correct
C30_Witness ==
    /\ TypeOmitted
    /\ ReturnedNormally
    /\ question.correct_answer = Str(<<"a">>)
    /\ student_answer = <<"A", " ">>
    /\ Dict.question_type = "MCQ"
    /\ Dict.is_correct

====
